---- MODULE Spec2Model ----
(***************************************************************************)
(* Document Canvas Synchronization Engine (tldraw-pdf).                    *)
(*                                                                         *)
(* The module holds several specifications over one set of variables; each *)
(* specification drives the variables of one component and leaves the      *)
(* others at their initial value:                                          *)
(*                                                                         *)
(*   Spec        the countdown autosave scheduler of PdfEditor             *)
(*               (src/unnamed/part_000, lines 1-333)                       *)
(*   FairSpec    Spec with the fairness of the timer and of the network    *)
(*   FairUploads Spec with the fairness of the auto-save upload alone      *)
(*   SpecButton  SaveDrawingsButton.handleSave (src/src/PdfEditor.tsx)     *)
(*   SpecZOrder  the lock guard and makeSureShapesAreAtBottom              *)
(*               (src/unnamed/part_000, lines 334-789)                     *)
(*   SpecLayout  initializeFromPageImages (src/src/App.tsx)                *)
(*   SpecBridge  the mount effect and handleMessage (src/src/App.tsx)      *)
(*   SpecLoad    the start-up of PdfEditor.onMount, FairLoad with fairness *)
(*   SpecCodec   the snapshot codec of src/src/PdfEditor.tsx               *)
(*   SpecCamera  the camera controller (src/unnamed/part_000)              *)
(*   SpecTeardown the registrations of onMount and its cleanup             *)
(*               (src/unnamed/part_001)                                    *)
(*   SpecFilter  the autosave listener with the added-record filter        *)
(*               (src/unnamed/part_000, lines 593-631)                     *)
(*   SpecStamp   the timestamp autosave scheduler (src/unnamed/part_001)   *)
(*   SpecRace    overlapping handleMessage calls (src/src/App.tsx)         *)
(*   SpecFixup   makeSureShapesAreAtBottom as a function of the page       *)
(*   SpecRestore the reload of the prior state (part_001, part_002)        *)
(***************************************************************************)
EXTENDS Integers, Sequences, FiniteSets, TLC

VARIABLES
    \* ---- autosave scheduler (PdfEditor, SharePanel) ----
    countdown,       \* useState<number | null>: Null or 0..10
    pathRef,         \* pathRef.current: NoPath or a destination path
    initialLoadRef,  \* initialLoadRef.current
    isSaving,        \* isSaving of the SharePanel instance now mounted
    btnNoPath,       \* !pathRef.current as read by SharePanel's last render
    inflight,        \* uploads awaiting their response, in no particular order
    outbox,          \* messages posted to window.parent, not yet taken by the host
    \* ---- history of the scheduler (read by the properties only) ----
    sinceArm,        \* one-second ticks since the countdown was last set to 10
    sinceEdit,       \* one-second ticks since the last qualifying user edit
    armedByEdit,     \* the running countdown was started by an edit (not a retry)
    burstSaves,      \* countdown-triggered saves started since the last arming
    lastAuto,        \* the last countdown-triggered save: none/started/ok/failed
    lastManual,      \* the last click on Save Drawings: none/started/skipped
    \* ---- canvas store (lock guard and z-order fix-up) ----
    store,           \* the page's shapes: id -> [index, isLocked]
    pending,         \* side-effect handler invocations queued by the last mutation
    updates,         \* updateShapes calls made by the fix-up since the last user mutation
    lastUser,        \* the last user command on the canvas
    \* ---- page layout (PdfEditorWrapper, initializeFromPageImages) ----
    phase,           \* state.phase of PdfEditorWrapper: loading / edit
    pdf,             \* state.pdf.pages: the placements handed to the editor
    pageImages,      \* the page_images of the configuration being laid out
    pages,           \* initializeFromPageImages: pages built so far
    top,             \* initializeFromPageImages: let top
    widest,          \* initializeFromPageImages: let widest
    layoutPc,        \* where the layout call stands: idle/loading/done/failed
    bootPc,          \* statements of PdfEditorWrapper's mount effect executed
    listening,       \* window 'message' listener registered
    sent,            \* types of the messages PdfEditorWrapper posted to the host
    msg,             \* event.data of the message handleMessage is working on
    config,          \* state.config: NoConfig or [type, path]
    pdfSrc,          \* generation of the page.src urls held in state.pdf
    canvasSrc,       \* generation of the src urls of the image assets on the canvas
    lastMsg,         \* the last message handleMessage was called with
    \* ---- SaveDrawingsButton (src/src/PdfEditor.tsx) ----
    path,            \* the path prop of the button now mounted
    saving,          \* isSaving of the button now mounted
    attempts,        \* handleSave calls awaiting their response
    posted,          \* messages posted to window.parent, not yet taken by the host
    lastResponse,    \* the response that settled the last attempt
    \* ---- editor start-up (PdfEditor.onMount and its load effect) ----
    variant,         \* which PdfEditor source is built
    props,           \* PdfEditor props: type, whether a path / a prior-state ref is given
    loadPc,          \* where the start-up stands
    steps,           \* the start-up steps done so far, in order
    loadOut,         \* types of the messages PdfEditor posted to the host
    \* ---- snapshot codec (PdfEditor.handleSave / loadPreviousDrawings) ----
    snapshot,        \* getSnapshot(editor.store): [document, session]
    codecPc,         \* where the save / reload round trip stands
    wire,            \* the text in transit: base64 state, then the data URI
    restored,        \* what loadSnapshot was called with
    \* ---- camera controller (PdfEditor.onMount, updateCameraBounds) ----
    cameraPc,        \* uninstalled / installed
    viewportWidth,   \* editor.getViewportScreenBounds().width
    isMobile,        \* let isMobile of onMount's closure
    paddingX,        \* constraints.padding.x of the camera options in force
    applications,    \* calls of updateCameraBounds
    flips,           \* resizes since the installation that changed the class
    resizes,         \* resizes of the viewport so far
    \* ---- registrations and teardown (PdfEditor of part_001) ----
    tdProps,         \* props of the PdfEditor: type, path given, state_url given
    tdPc,            \* where onMount's async initialization stands
    registered,      \* store listeners, side-effect handlers, reaction registered
    timers,          \* intervals set and not cleared
    torn,            \* the editor has been unmounted
    lateRuns,        \* callbacks that ran after the unmount
    \* ---- autosave listener with added-record filter (part_000, second PdfEditor) ----
    filterType,      \* the type prop: pdf / whiteboard
    filterPc,        \* where onMount's initialization stands
    records,         \* document records in the store: key -> times updated
    countdownB,      \* the countdown state of this PdfEditor
    lastChange,      \* update.changes of the last call of the listener
    \* ---- timestamp autosave scheduler (PdfEditor of part_001) ----
    hasPath,         \* the path prop is given
    clock,           \* Date.now(), in seconds
    lastChangeTime,  \* useState<number>(0): time of the last recorded edit
    lastSaveTimeRef, \* lastSaveTimeRef.current: start of the last auto-save
    saving2,         \* auto-saves awaiting their response
    lastOutcome,     \* how the last answered auto-save ended: none/ok/failed
    \* ---- concurrent handleMessage calls (PdfEditorWrapper of App.tsx) ----
    calls,           \* the handleMessage calls so far, in order of receipt
    session,         \* the wrapper's state, with the call that set it
    \* ---- reload of the prior state (loadPreviousDrawings, load-state effect) ----
    restoreSrc,      \* which source is built: part_001 / part_002
    stateUrl,        \* the prior-state reference: state_url, or the path fetched
    canvas,          \* what the editor shows: assets, shapes, guards, tool, document
    canvasBefore,    \* the canvas when the reload started
    restorePc,       \* ready / skipped / loaded / failed
    loadCalls,       \* calls of loadSnapshot
    restoreOut       \* types of the messages the effect posted

schedVars == <<countdown, pathRef, initialLoadRef, isSaving, btnNoPath, inflight,
               outbox, sinceArm, sinceEdit, armedByEdit, burstSaves, lastAuto,
               lastManual>>

zVars == <<store, pending, updates, lastUser>>

layoutVars == <<phase, pdf, pageImages, pages, top, widest, layoutPc, bootPc,
                listening, sent, msg, config, pdfSrc, canvasSrc, lastMsg>>

buttonVars == <<path, saving, attempts, posted, lastResponse>>

loadVars == <<variant, props, loadPc, steps, loadOut>>

codecVars == <<snapshot, codecPc, wire, restored>>

camVars == <<cameraPc, viewportWidth, isMobile, paddingX, applications, flips, resizes>>

tdVars == <<tdProps, tdPc, registered, timers, torn, lateRuns>>

filterVars == <<filterType, filterPc, records, countdownB, lastChange>>

stampVars == <<hasPath, clock, lastChangeTime, lastSaveTimeRef, saving2, lastOutcome>>

raceVars == <<calls, session>>

restoreVars == <<restoreSrc, stateUrl, canvas, canvasBefore, restorePc, loadCalls, restoreOut>>

vars == <<schedVars, zVars, layoutVars, buttonVars, loadVars, codecVars, camVars, tdVars, filterVars, stampVars, raceVars, restoreVars>>

\* What the actions of one component leave alone.
notSched == <<zVars, layoutVars, buttonVars, loadVars, codecVars, camVars, tdVars, filterVars, stampVars, raceVars, restoreVars>>
notZ == <<schedVars, layoutVars, buttonVars, loadVars, codecVars, camVars, tdVars, filterVars, stampVars, raceVars, restoreVars>>
notLayout == <<schedVars, zVars, buttonVars, loadVars, codecVars, camVars, tdVars, filterVars, stampVars, raceVars, restoreVars>>
notButton == <<schedVars, zVars, layoutVars, loadVars, codecVars, camVars, tdVars, filterVars, stampVars, raceVars, restoreVars>>
notLoad == <<schedVars, zVars, layoutVars, buttonVars, codecVars, camVars, tdVars, filterVars, stampVars, raceVars, restoreVars>>
notCodec == <<schedVars, zVars, layoutVars, buttonVars, loadVars, camVars, tdVars, filterVars, stampVars, raceVars, restoreVars>>
notCamera == <<schedVars, zVars, layoutVars, buttonVars, loadVars, codecVars, tdVars, filterVars, stampVars, raceVars, restoreVars>>
notTeardown == <<schedVars, zVars, layoutVars, buttonVars, loadVars, codecVars, camVars, filterVars, stampVars, raceVars, restoreVars>>
notFilter == <<schedVars, zVars, layoutVars, buttonVars, loadVars, codecVars, camVars, tdVars, stampVars, raceVars, restoreVars>>
notStamp == <<schedVars, zVars, layoutVars, buttonVars, loadVars, codecVars, camVars, tdVars, filterVars, raceVars, restoreVars>>
notRace == <<schedVars, zVars, layoutVars, buttonVars, loadVars, codecVars, camVars, tdVars, filterVars, stampVars, restoreVars>>
notRestore == <<schedVars, zVars, layoutVars, buttonVars, loadVars, codecVars, camVars, tdVars, filterVars, stampVars, raceVars>>

----------------------------------------------------------------------------
\* Bounds of the model.
MaxOutbox == 1     \* messages the host has not yet taken
MaxManual == 1     \* manual uploads in flight at once

\* Program constants.
Null == -1                 \* countdown === null
CountdownStart == 10       \* setCountdown(10)
NoPath == "undefined"      \* path?: string left undefined
NoConfig == [type |-> "none", path |-> NoPath]   \* state.phase = 'loading'
NoMsg == [type |-> "none", path |-> NoPath, urls |-> "none"]

\* Mutant of BootSteps: the readiness message is posted before the listener
\* is registered.
BootSteps_PostFirst == <<"post", "listen">>

\* The mount effect of PdfEditorWrapper, statement by statement:
\* window.addEventListener('message', handleMessage), then
\* window.parent.postMessage({ type: 'EDITOR_READY' }).
BootSteps == <<"listen", "post">>
Paths == {"docs/a.json"}
EditedCap == CountdownStart + 1   \* sinceEdit saturates: "more than 10 ticks ago"

Responses == {"ok", "notok", "reject", "rejectNoMessage"}

Msg(t, p, e) == [type |-> t, path |-> p, error |-> e]

Min(a, b) == IF a < b THEN a ELSE b

----------------------------------------------------------------------------
\* Mutant of HandleSaveStart: the early return on a missing path is dropped.
HandleSaveStart_NoPathCheck(p, origin, flight) ==
    Append(flight, [origin |-> origin, path |-> p, live |-> TRUE])

\* SharePanel.handleSave, up to the await of fetch: the attempts in flight after
\* a call with pathRef.current = p made by `origin`.
HandleSaveStart(p, origin, flight) ==
    IF p = NoPath
    THEN flight
    ELSE Append(flight, [origin |-> origin, path |-> p, live |-> TRUE])

\* Mutant of HandleSaveRethrows: the catch swallows the error.
HandleSaveRethrows_Swallow(r) == FALSE

\* SharePanel.handleSave after the await: whether its catch block runs, which
\* posts SAVE_ERROR and ends with `throw error`.
HandleSaveRethrows(r) == r # "ok"

\* finally { setIsSaving(false) }
HandleSaveFinally(r) == FALSE

\* SharePanel.handleSave after the await: the message it posts for response r.
HandleSaveMessage(a, r) ==
    CASE r = "ok"     -> Msg("SAVE_COMPLETE", a.path, "")
      [] r = "notok"  -> Msg("SAVE_ERROR", NoPath, "Failed to save state")
      [] r = "reject" -> Msg("SAVE_ERROR", NoPath, "Failed to fetch")
      [] OTHER        -> Msg("SAVE_ERROR", NoPath, "Unknown error occurred")

\* The components memo depends on countdown: a new SharePanel type is mounted
\* whenever countdown changes, with isSaving = false; uploads started by the old
\* instance keep running but their setIsSaving(false) no longer shows.
Orphan(flight) == [i \in DOMAIN flight |-> [flight[i] EXCEPT !.live = FALSE]]

HasAuto(flight) == \E i \in DOMAIN flight : flight[i].origin = "auto"
NumManual(flight) == Cardinality({i \in DOMAIN flight : flight[i].origin = "manual"})

RemoveAt(s, i) == [j \in 1..(Len(s) - 1) |-> IF j < i THEN s[j] ELSE s[j + 1]]

\* Mutant of CheckAndSaveNext: a failed save is abandoned (countdown null).
CheckAndSaveNext_Abandon(r) == Null

\* checkAndSave after `await save()`: the countdown it sets for response r
\* (its catch runs when handleSave re-threw).
CheckAndSaveNext(r) == IF HandleSaveRethrows(r) THEN CountdownStart ELSE Null

\* The auto-save effect's guard (saveRef.current is set by SharePanel's own
\* effect, which React runs before the parent's effect in every commit).
AutoSaveGuard(p, loaded) == p # NoPath /\ loaded

\* Mutant of AutoSaveEffect: the effect saves one tick early.
AutoSaveEffect_OffByOne(c, p, loaded, flight) ==
    IF AutoSaveGuard(p, loaded) /\ c = 1
    THEN HandleSaveStart(p, "auto", flight)
    ELSE flight

\* The auto-save effect, run after a commit that changed countdown to c.
AutoSaveEffect(c, p, loaded, flight) ==
    IF AutoSaveGuard(p, loaded) /\ c = 0
    THEN HandleSaveStart(p, "auto", flight)
    ELSE flight

\* The commit that follows a change of countdown to c: SharePanel is remounted,
\* then the effects run (the auto-save effect may start a save).
CommitCountdown(c) ==
    LET flight == AutoSaveEffect(c, pathRef, initialLoadRef, Orphan(inflight))
        started == Len(flight) > Len(inflight)
    IN  /\ countdown' = c
        /\ inflight' = flight
        /\ isSaving' = started
        /\ btnNoPath' = (pathRef = NoPath)
        /\ burstSaves' = IF c = CountdownStart THEN 0
                         ELSE IF started THEN burstSaves + 1 ELSE burstSaves
        /\ lastAuto' = IF started THEN "started" ELSE lastAuto

----------------------------------------------------------------------------
\* Mutant of ListenerNext: the source of the update is not looked at.
ListenerNext_AnySource(source, loaded, prev) ==
    IF ~loaded THEN prev
    ELSE IF prev = Null THEN CountdownStart
    ELSE prev

\* Mutant of ListenerNext: every qualifying edit restarts the countdown.
ListenerNext_Reset(source, loaded, prev) ==
    IF source # "user" \/ ~loaded THEN prev ELSE CountdownStart

\* The autosave listener of onMount (store.listen), for one store update.
ListenerNext(source, loaded, prev) ==
    IF source # "user" \/ ~loaded THEN prev
    ELSE IF prev = Null THEN CountdownStart
    ELSE prev

StoreUpdate(source) ==
    LET next == ListenerNext(source, initialLoadRef, countdown)
        qualifies == source = "user" /\ initialLoadRef
    IN  /\ sinceEdit' = IF qualifies THEN 0 ELSE sinceEdit
        /\ IF next # countdown
           THEN /\ CommitCountdown(next)
                /\ sinceArm' = 0
                /\ armedByEdit' = TRUE
           ELSE UNCHANGED <<countdown, inflight, isSaving, btnNoPath, burstSaves,
                            lastAuto, sinceArm, armedByEdit>>
        /\ UNCHANGED <<pathRef, initialLoadRef, outbox, lastManual>>
        /\ UNCHANGED notSched

\* Mutant of TickNext: the callback lowers the countdown by two.
TickNext_ByTwo(prev) == IF prev = Null \/ prev <= 0 THEN 0 ELSE prev - 2

\* The countdown effect's interval callback, one second after the last change.
TickNext(prev) == IF prev = Null \/ prev <= 0 THEN 0 ELSE prev - 1

Tick ==
    /\ countdown # Null
    /\ countdown > 0
    /\ CommitCountdown(TickNext(countdown))
    /\ sinceArm' = sinceArm + 1
    /\ sinceEdit' = Min(sinceEdit + 1, EditedCap)
    /\ UNCHANGED <<pathRef, initialLoadRef, outbox, armedByEdit, lastManual>>
    /\ UNCHANGED notSched

\* onMount's async initialization reaches its end.
InitComplete ==
    /\ ~initialLoadRef
    /\ Len(outbox) < MaxOutbox
    /\ initialLoadRef' = TRUE
    /\ outbox' = Append(outbox, Msg("LOAD_COMPLETE", NoPath, ""))
    /\ UNCHANGED <<countdown, pathRef, isSaving, btnNoPath, inflight,
                   sinceArm, sinceEdit, armedByEdit, burstSaves, lastAuto,
                   lastManual>>
    /\ UNCHANGED notSched

\* The Save Drawings button (disabled = isSaving || !pathRef.current, as last
\* rendered) is clicked.
ManualSave ==
    /\ ~(isSaving \/ btnNoPath)
    /\ NumManual(inflight) < MaxManual
    /\ LET flight == HandleSaveStart(pathRef, "manual", inflight)
       IN  /\ inflight' = flight
           /\ IF Len(flight) > Len(inflight)
              THEN /\ isSaving' = TRUE
                   /\ btnNoPath' = (pathRef = NoPath)
                   /\ lastManual' = "started"
              ELSE /\ lastManual' = "skipped"
                   /\ UNCHANGED <<isSaving, btnNoPath>>
    /\ UNCHANGED <<countdown, pathRef, initialLoadRef, outbox,
                   sinceArm, sinceEdit, armedByEdit, burstSaves, lastAuto>>
    /\ UNCHANGED notSched

\* The response to upload i arrives: handleSave posts its message and clears
\* isSaving; for a countdown-triggered save checkAndSave then sets countdown.
UploadDone(i, r) ==
    /\ i \in DOMAIN inflight
    /\ Len(outbox) < MaxOutbox
    /\ LET a == inflight[i]
           rest == RemoveAt(inflight, i)
       IN  /\ outbox' = Append(outbox, HandleSaveMessage(a, r))
           /\ IF a.origin = "auto"
              THEN /\ countdown' = CheckAndSaveNext(r)
                   /\ lastAuto' = IF r = "ok" THEN "ok" ELSE "failed"
                   /\ inflight' = Orphan(rest)
                   /\ isSaving' = FALSE
                   /\ btnNoPath' = (pathRef = NoPath)
                   /\ sinceArm' = 0
                   /\ armedByEdit' = FALSE
                   /\ burstSaves' = 0
              ELSE /\ inflight' = rest
                   /\ IF a.live
                      THEN /\ isSaving' = HandleSaveFinally(r)
                           /\ btnNoPath' = (pathRef = NoPath)
                      ELSE UNCHANGED <<isSaving, btnNoPath>>
                   /\ UNCHANGED <<countdown, sinceArm, armedByEdit, burstSaves,
                                  lastAuto>>
    /\ UNCHANGED <<pathRef, initialLoadRef, sinceEdit, lastManual>>
    /\ UNCHANGED notSched

\* The host sends another configuration: PdfEditor is rendered with a new path
\* prop and the pathRef effect stores it after the render. With a new pdf
\* object the components memo is recomputed and SharePanel is remounted, its
\* button rendered with the pathRef of before the effect.
Reconfigure(p, newPdf) ==
    /\ p # pathRef
    /\ pathRef' = p
    /\ IF newPdf
       THEN /\ inflight' = Orphan(inflight)
            /\ isSaving' = FALSE
            /\ btnNoPath' = (pathRef = NoPath)
       ELSE UNCHANGED <<inflight, isSaving, btnNoPath>>
    /\ UNCHANGED <<countdown, initialLoadRef, outbox,
                   sinceArm, sinceEdit, armedByEdit, burstSaves, lastAuto,
                   lastManual>>
    /\ UNCHANGED notSched

\* The host takes the oldest message posted to it.
HostReceive ==
    /\ outbox # <<>>
    /\ outbox' = Tail(outbox)
    /\ UNCHANGED <<countdown, pathRef, initialLoadRef, isSaving, btnNoPath,
                   inflight, sinceArm, sinceEdit, armedByEdit, burstSaves,
                   lastAuto, lastManual>>
    /\ UNCHANGED notSched

InitSched ==
    /\ countdown = Null
    /\ pathRef \in Paths \cup {NoPath}
    /\ initialLoadRef = FALSE
    /\ isSaving = FALSE
    /\ btnNoPath = (pathRef = NoPath)
    /\ inflight = <<>>
    /\ outbox = <<>>
    /\ sinceArm = 0
    /\ sinceEdit = EditedCap
    /\ armedByEdit = FALSE
    /\ burstSaves = 0
    /\ lastAuto = "none"
    /\ lastManual = "none"

\* The values a component's variables keep in the specifications of the others.
IdleSched ==
    /\ countdown = Null /\ pathRef = NoPath /\ initialLoadRef = FALSE
    /\ isSaving = FALSE /\ btnNoPath = TRUE /\ inflight = <<>> /\ outbox = <<>>
    /\ sinceArm = 0 /\ sinceEdit = EditedCap /\ armedByEdit = FALSE
    /\ burstSaves = 0 /\ lastAuto = "none" /\ lastManual = "none"

IdleZ == store = <<>> /\ pending = 0 /\ updates = 0 /\ lastUser = "none"

\* PdfEditorWrapper after its mount effect, before any configuration message.
IdleLayout ==
    /\ phase = "loading"
    /\ pdf = <<>>
    /\ pageImages = <<>>
    /\ pages = <<>>
    /\ top = 0
    /\ widest = 0
    /\ layoutPc = "idle"
    /\ bootPc = Len(BootSteps)
    /\ listening = TRUE
    /\ sent = <<"EDITOR_READY">>
    /\ msg = NoMsg
    /\ config = NoConfig
    /\ pdfSrc = "none"
    /\ canvasSrc = "none"
    /\ lastMsg = NoMsg

\* SaveDrawingsButton mounted without a path, never clicked.
IdleButton ==
    /\ path = NoPath
    /\ saving = FALSE
    /\ attempts = <<>>
    /\ posted = <<>>
    /\ lastResponse = "none"

\* PdfEditor not rendered yet.
IdleLoad ==
    /\ variant = "none"
    /\ props = [type |-> "none", hasPath |-> FALSE, ref |-> "none"]
    /\ loadPc = "unmounted"
    /\ steps = <<>>
    /\ loadOut = <<>>

\* No snapshot taken yet.
NoSnapshot == [document |-> <<>>, session |-> <<>>]

IdleCodec ==
    /\ snapshot = NoSnapshot
    /\ codecPc = "idle"
    /\ wire = <<>>
    /\ restored = NoSnapshot

\* The editor's viewport before the camera controller is installed.
IdleCamera ==
    /\ cameraPc = "idle"
    /\ viewportWidth = 0
    /\ isMobile = FALSE
    /\ paddingX = 0
    /\ applications = 0
    /\ flips = 0
    /\ resizes = 0

\* No editor mounted.
IdleTeardown ==
    /\ tdProps = [type |-> "none", hasPath |-> FALSE, hasRef |-> FALSE]
    /\ tdPc = "unmounted"
    /\ registered = {}
    /\ timers = {}
    /\ torn = FALSE
    /\ lateRuns = {}

\* No editor of the second PdfEditor of part_000 is mounted.
NoChange == [added |-> {}, updated |-> {}, removed |-> {}]

IdleFilter ==
    /\ filterType = "none"
    /\ filterPc = "idle"
    /\ records = <<>>
    /\ countdownB = Null
    /\ lastChange = NoChange

\* No PdfEditor of part_001 is mounted.
IdleStamp ==
    /\ hasPath = FALSE
    /\ clock = 0
    /\ lastChangeTime = 0
    /\ lastSaveTimeRef = 0
    /\ saving2 = 0
    /\ lastOutcome = "none"

\* No configuration message has been received.
IdleRace ==
    /\ calls = <<>>
    /\ session = [phase |-> "loading"]

\* No reload of a prior state is under way.
IdleRestore ==
    /\ restoreSrc = "none"
    /\ stateUrl = [kind |-> "none"]
    /\ canvas = <<>>
    /\ canvasBefore = <<>>
    /\ restorePc = "idle"
    /\ loadCalls = 0
    /\ restoreOut = <<>>

Init == InitSched /\ IdleZ /\ IdleLayout /\ IdleButton /\ IdleLoad /\ IdleCodec /\ IdleCamera /\ IdleTeardown /\ IdleFilter /\ IdleStamp /\ IdleRace /\ IdleRestore

Next ==
    \/ \E source \in {"user", "remote"} : StoreUpdate(source)
    \/ Tick
    \/ InitComplete
    \/ ManualSave
    \/ \E i \in 1..(MaxManual + 1), r \in Responses : UploadDone(i, r)
    \/ \E p \in Paths \cup {NoPath}, newPdf \in BOOLEAN : Reconfigure(p, newPdf)
    \/ HostReceive

Spec == Init /\ [][Next]_vars

\* The interval timer fires, every upload is answered (the network stack
\* settles each fetch), and the host takes the messages posted to it.
FairSpec ==
    /\ Spec
    /\ WF_vars(Tick)
    /\ \A o \in {"auto", "manual"} :
         SF_vars(\E i \in 1..(MaxManual + 1), r \in Responses :
                    /\ i \in DOMAIN inflight
                    /\ inflight[i].origin = o
                    /\ UploadDone(i, r))
    /\ WF_vars(HostReceive)

\* The part of that fairness a save in flight depends on: the upload of
\* checkAndSave is answered and the host takes the messages posted to it.
FairUploads ==
    /\ Spec
    /\ SF_vars(\E i \in 1..(MaxManual + 1), r \in Responses :
                  /\ i \in DOMAIN inflight
                  /\ inflight[i].origin = "auto"
                  /\ UploadDone(i, r))
    /\ WF_vars(HostReceive)

----------------------------------------------------------------------------
\* Steps of the scheduler, as the properties below recognise them.
EditStep ==
    sinceEdit' = 0 /\ (sinceEdit > 0 \/ (countdown = Null /\ countdown' # Null))
AutoStarted == lastAuto # "started" /\ lastAuto' = "started"
AutoFailed == lastAuto = "started" /\ lastAuto' = "failed"
AutoSucceeded == lastAuto = "started" /\ lastAuto' = "ok"
ReachedZero == countdown # 0 /\ countdown' = 0
SaveEvents(box) ==
    Cardinality({i \in DOMAIN box : box[i].type \in {"SAVE_COMPLETE", "SAVE_ERROR"}})
PostedSaveEvent ==
    /\ Len(outbox') = Len(outbox) + 1
    /\ outbox'[Len(outbox')].type \in {"SAVE_COMPLETE", "SAVE_ERROR"}
Configured == pathRef # NoPath /\ initialLoadRef

C2_FailedSaveRetries ==
    [][/\ (AutoFailed => countdown' = CountdownStart /\ sinceArm' = 0)
       /\ (lastAuto = "failed" /\ countdown # Null /\ countdown > 0
             => countdown' = countdown - 1 \/ countdown' = countdown)
       /\ (lastAuto = "failed" /\ ReachedZero /\ pathRef # NoPath
             => AutoStarted /\ sinceArm' = CountdownStart)]_vars

\* C2 witness: a retry is in flight, started 10 ticks after a failure with no
\* user edit in between.
C2_Witness ==
    /\ lastAuto = "started"
    /\ ~armedByEdit
    /\ countdown = 0
    /\ sinceArm = CountdownStart
    /\ sinceEdit = EditedCap
    /\ \E i \in DOMAIN outbox : outbox[i].type = "SAVE_ERROR"

C8_NoPathNeverArms ==
    [][pathRef = NoPath /\ countdown = Null => countdown' = Null]_vars

\* C9: a save triggered while no destination is configured, by a click or by
\* the countdown, issues no upload and posts neither SAVE_COMPLETE nor
\* SAVE_ERROR; every upload in flight carries a destination.
C9_NoPathNoUpload ==
    [][/\ (pathRef = NoPath
             => /\ Len(inflight') <= Len(inflight)
                /\ (PostedSaveEvent => Len(inflight') < Len(inflight)))
       /\ \A i \in DOMAIN inflight' : inflight'[i].path # NoPath]_vars

\* C9 witness: with no destination the button was clicked and the countdown
\* has reached 0, and nothing is in flight or posted.
C9_Witness ==
    /\ pathRef = NoPath
    /\ lastManual = "skipped"
    /\ countdown = 0
    /\ inflight = <<>>
    /\ outbox = <<>>

\* The steps that change the countdown: a user edit after the load, a tick of
\* the countdown's interval, the end of a countdown-triggered save.
UserEditStep == sinceEdit' = 0 /\ initialLoadRef
TickStep == countdown # Null /\ countdown' = countdown - 1 /\ sinceArm' = sinceArm + 1
AutoEnded == lastAuto = "started" /\ lastAuto' \in {"ok", "failed"}

\* C32: in every state of the scheduler (idle, counting down, saving) the
\* listener answers a store update whose source is not 'user' with the
\* countdown it found, and no step but a user edit, a tick or the end of a
\* save ever changes the countdown.
C32_NonUserUpdateKeepsCountdown ==
    /\ [](ListenerNext("remote", initialLoadRef, countdown) = countdown)
    /\ [][countdown' # countdown => UserEditStep \/ TickStep \/ AutoEnded]_vars

\* C32 witness: the countdown is running, started by an edit made some ticks
\* ago, and an update from another source would leave it as it is.
C32_Witness ==
    /\ initialLoadRef
    /\ countdown = 7
    /\ sinceEdit = 3
    /\ ListenerNext("remote", initialLoadRef, countdown) = 7
    /\ ListenerNext("user", initialLoadRef, Null) = CountdownStart

\* A qualifying edit has arrived while the countdown-triggered save is in
\* flight: the countdown is 0 and no tick has followed the edit.
EditDuringSave ==
    /\ countdown = 0
    /\ lastAuto = "started"
    /\ sinceEdit = 0

\* A countdown-triggered save that started after the last qualifying edit is
\* in flight (a save starts in the commit of a tick).
SaveStartedAfterEdit ==
    /\ lastAuto = "started"
    /\ sinceEdit > 0

\* C29: an edit that arrives while a countdown-triggered save is in flight
\* is followed, with no further edit needed, by a save attempt that starts
\* after it (unless the host withdraws the destination meanwhile).
C29_EditDuringSaveIsSaved ==
    EditDuringSave ~> (SaveStartedAfterEdit \/ pathRef = NoPath)

ManualEnded == NumManual(inflight') < NumManual(inflight)

HasLive(flight) == \E i \in DOMAIN flight : flight[i].live

\* C25: for every manual save in flight, whatever failure answers it, the
\* call posts SAVE_ERROR and re-throws (a success posts SAVE_COMPLETE and
\* returns); the end of the attempt posts its one message; and in every case,
\* a call without a path included, isSaving is true only while an attempt of
\* the mounted panel is in flight: it is false again once the attempt ended.
C25_ManualFailureRethrows ==
    /\ [](\A i \in DOMAIN inflight, r \in Responses :
            inflight[i].origin = "manual" =>
               /\ r # "ok" =>
                     /\ HandleSaveMessage(inflight[i], r).type = "SAVE_ERROR"
                     /\ HandleSaveRethrows(r)
               /\ r = "ok" =>
                     /\ HandleSaveMessage(inflight[i], r).type = "SAVE_COMPLETE"
                     /\ ~HandleSaveRethrows(r)
               /\ ~HandleSaveFinally(r))
    /\ [](isSaving <=> HasLive(inflight))
    /\ [][ManualEnded => PostedSaveEvent]_vars
    /\ [][(lastManual' = "skipped" /\ lastManual # "skipped") =>
            ~isSaving' /\ inflight' = inflight]_vars

\* C25 witness: a manual save has failed: SAVE_ERROR is posted, the error was
\* re-thrown and the panel that made the attempt shows isSaving false.
C25_Witness ==
    /\ lastManual = "started"
    /\ \E i \in DOMAIN outbox : outbox[i].type = "SAVE_ERROR"
    /\ lastAuto = "none"
    /\ inflight = <<>>
    /\ ~isSaving

----------------------------------------------------------------------------
(***************************************************************************)
(* Lock guard and z-order fix-up (src/unnamed/part_000, lines 360-398 and  *)
(* 708-724; the same code in src/src/PdfEditor.tsx and part_001).          *)
(*                                                                         *)
(* Ordering keys are tldraw's fractional indices. They are modelled by     *)
(* integers: the even numbers are the integer keys ("a1", "a2", ...) and   *)
(* an odd number is a key allocated between two of them.                   *)
(***************************************************************************)
NumPinned == 2     \* pdf.pages.length
KeySlack == 1      \* keys available above the pages' first keys
NumOthers == 2     \* annotation shapes the user may have on the page

\* shapeIds = pdf.pages.map(page => page.shapeId), in page order.
ShapeIds == [i \in 1..NumPinned |-> i]
ShapeIdSet == {ShapeIds[i] : i \in DOMAIN ShapeIds}
OtherIds == (NumPinned + 1)..(NumPinned + NumOthers)
MaxKey == 4 * NumPinned + KeySlack
\* Keys a user command may give a shape: the allocator can always place
\* NumPinned keys below them inside the modelled range.
UserKeys == (2 * NumPinned - 1)..MaxKey
Shape(k, locked) == [index |-> k, isLocked |-> locked]

\* sortByIndex: a precedes b.
Before(st, a, b) ==
    \/ st[a].index < st[b].index
    \/ st[a].index = st[b].index /\ a < b

\* ids.sort(sortByIndex) / getSortedChildIdsForParent: the ids of S by key.
SortByIndex(S, st) ==
    [i \in 1..Cardinality(S) |->
        CHOOSE a \in S : Cardinality({b \in S : Before(st, b, a)}) = i - 1]

\* Mutant of GetIndicesBetween: the keys handed out lie above the sibling.
GetIndicesBetween_Above(above, n) == [i \in 1..n |-> above + 2 * i]

\* getIndicesBetween(undefined, above, n): n ascending integer keys below above.
GetIndicesBetween(above, n) ==
    LET highest == IF above % 2 = 0 THEN above - 2 ELSE above - 1
    IN  [i \in 1..n |-> highest - 2 * (n - i)]

\* Mutant of BeforeChangeHandler: the guard lets every change through.
BeforeChangeHandler_PassThrough(id, prev, next) == next

\* registerBeforeChangeHandler('shape', (prev, next) => ...).
BeforeChangeHandler(id, prev, next) ==
    IF id \notin ShapeIdSet THEN next
    ELSE IF next.isLocked THEN next
    ELSE [prev EXCEPT !.isLocked = TRUE]

\* Mutant of AlreadyAtBottom: the bottom siblings are compared in reverse.
AlreadyAtBottom_Reversed(bottom, shapes) ==
    \A i \in DOMAIN bottom : bottom[i] = shapes[Len(shapes) + 1 - i]

\* Mutant of AlreadyAtBottom: the no-op check is dropped.
AlreadyAtBottom_Never(bottom, shapes) == FALSE

\* currentBottomShapes.every((shape, i) => shape.id === shapes[i].id).
AlreadyAtBottom(bottom, shapes) ==
    \A i \in DOMAIN bottom : bottom[i] = shapes[i]

\* Mutant of BottomSibling: the topmost other sibling is taken.
BottomSibling_Top(others) == others[Len(others)]

\* editor.getShape(otherSiblings[0]).
BottomSibling(others) == others[1]

\* Mutant of UpdateShapes: the siblings not named are renumbered too.
UpdateShapes_Renumber(st, partials) ==
    [id \in DOMAIN st |->
        IF id \in DOMAIN partials
        THEN BeforeChangeHandler(id, st[id], partials[id])
        ELSE [st[id] EXCEPT !.index = @ + 2]]

\* editor.updateShapes(partials) of the fix-up on store st: every record
\* named is changed through the before-change handler, no other is touched.
UpdateShapes(st, partials) ==
    [id \in DOMAIN st |->
        IF id \in DOMAIN partials
        THEN BeforeChangeHandler(id, st[id], partials[id])
        ELSE st[id]]

\* makeSureShapesAreAtBottom(editor, shapeIds, shapeIdSet) on store st:
\* whether updateShapes was called, and the store it leaves.
MakeSureShapesAreAtBottom(st) ==
    LET shapes == SortByIndex(ShapeIdSet \cap DOMAIN st, st)
        siblings == SortByIndex(DOMAIN st, st)
        bottom == SubSeq(siblings, 1, Min(Len(shapes), Len(siblings)))
        others == SelectSeq(siblings, LAMBDA id : id \notin ShapeIdSet)
        noop == [called |-> FALSE, store |-> st]
    IN  IF Len(shapes) = 0 THEN noop
        ELSE IF Len(siblings) = 0 THEN noop
        ELSE IF Len(bottom) = 0 THEN noop
        ELSE IF AlreadyAtBottom(bottom, shapes) THEN noop
        ELSE IF Len(others) = 0 THEN noop
        ELSE LET indexes == GetIndicesBetween(st[BottomSibling(others)].index,
                                              Len(shapes))
                 partial(i) == [st[shapes[i]] EXCEPT !.index = indexes[i]]
                 slot(id) == CHOOSE i \in DOMAIN shapes : shapes[i] = id
             IN  [called |-> TRUE,
                  store |-> UpdateShapes(st,
                     [id \in {shapes[i] : i \in DOMAIN shapes} |->
                         partial(slot(id))])]

Changed(st1, st2) == Cardinality({id \in DOMAIN st1 : st1[id] # st2[id]})

\* One invocation of a registered handler, () => makeSureShapesAreAtBottom(...),
\* on store st with p handlers queued and u updateShapes calls so far: every
\* shape record its updateShapes changes queues an after-change handler.
HandlerStep(st, p, u) ==
    LET r == MakeSureShapesAreAtBottom(st)
    IN  [store |-> r.store,
         updates |-> IF r.called THEN u + 1 ELSE u,
         pending |-> p - 1 + Changed(st, r.store)]

\* One queued after-create / after-change handler runs the fix-up.
RunHandler ==
    /\ pending > 0
    /\ LET n == HandlerStep(store, pending, updates)
       IN  /\ store' = n.store
           /\ updates' = n.updates
           /\ pending' = n.pending
    /\ UNCHANGED lastUser
    /\ UNCHANGED notZ

KeyFree(st, k) == \A id \in DOMAIN st : st[id].index # k

\* The user draws a shape (the after-create handler is queued).
UserCreateShape(id, k) ==
    /\ pending = 0
    /\ id \in OtherIds \ DOMAIN store
    /\ KeyFree(store, k)
    /\ store' = [j \in DOMAIN store \cup {id} |->
                    IF j = id THEN Shape(k, FALSE) ELSE store[j]]
    /\ pending' = 1
    /\ updates' = 0
    /\ lastUser' = "create"
    /\ UNCHANGED notZ

\* The user changes an annotation shape: reorders it, moves it, locks it.
UserChangeShape(id, k, locked) ==
    /\ pending = 0
    /\ id \in OtherIds \cap DOMAIN store
    /\ k = store[id].index \/ KeyFree(store, k)
    /\ LET next == BeforeChangeHandler(id, store[id], Shape(k, locked))
       IN  /\ next # store[id]
           /\ store' = [store EXCEPT ![id] = next]
    /\ pending' = 1
    /\ updates' = 0
    /\ lastUser' = "change"
    /\ UNCHANGED notZ

\* A command tries to unlock a page shape, and to give it key k (the editor
\* drops every update of a locked shape that does not name isLocked).
UserUnlockPage(id, k) ==
    /\ pending = 0
    /\ id \in ShapeIdSet \cap DOMAIN store
    /\ LET prev == store[id]
           next == BeforeChangeHandler(id, prev, Shape(k, FALSE))
       IN  /\ store' = [store EXCEPT ![id] = next]
           /\ pending' = IF next # prev THEN 1 ELSE 0
    /\ updates' = 0
    /\ lastUser' = "unlock"
    /\ UNCHANGED notZ

\* The user deletes an unlocked annotation shape (no handler is registered).
UserDeleteShape(id) ==
    /\ pending = 0
    /\ id \in OtherIds \cap DOMAIN store
    /\ ~store[id].isLocked
    /\ store' = [j \in DOMAIN store \ {id} |-> store[j]]
    /\ updates' = 0
    /\ lastUser' = "delete"
    /\ UNCHANGED pending
    /\ UNCHANGED notZ

\* The next integer key above key k.
IndexAbove(k) == IF k % 2 = 0 THEN k + 2 ELSE k + 1

\* The highest key on the page; on an empty page the first key handed out is
\* placed so that the keys below it stay inside the modelled range.
HighestKey(st) ==
    IF DOMAIN st = {} THEN 2 * NumPinned - 2
    ELSE CHOOSE k \in {st[id].index : id \in DOMAIN st} :
            \A id \in DOMAIN st : st[id].index <= k

\* editor.createShapes(pages): the page shapes are created locked, in page
\* order, above everything the loaded snapshot put on the page.
CreateShapes(st) ==
    [id \in DOMAIN st \cup ShapeIdSet |->
        IF id \in ShapeIdSet
        THEN Shape(IndexAbove(HighestKey(st)) + 2 * (id - 1), TRUE)
        ELSE st[id]]

\* The stores loadSnapshot can leave: annotation shapes of an earlier session.
Snapshots ==
    {st \in UNION {[L -> [index : UserKeys, isLocked : {FALSE}]] : L \in SUBSET OtherIds} :
        \A a, b \in DOMAIN st : a # b => st[a].index # st[b].index}

\* After loadSnapshot, createShapes and the registration of the handlers; the
\* direct call of makeSureShapesAreAtBottom in onMount is still to run.
InitZ ==
    /\ store \in {CreateShapes(st) : st \in Snapshots}
    /\ pending = 1
    /\ updates = 0
    /\ lastUser = "none"

InitZOrder == InitZ /\ IdleSched /\ IdleLayout /\ IdleButton /\ IdleLoad /\ IdleCodec /\ IdleCamera /\ IdleTeardown /\ IdleFilter /\ IdleStamp /\ IdleRace /\ IdleRestore

NextZOrder ==
    \/ RunHandler
    \/ \E id \in OtherIds, k \in UserKeys : UserCreateShape(id, k)
    \/ \E id \in OtherIds, k \in UserKeys, locked \in BOOLEAN :
          UserChangeShape(id, k, locked)
    \/ \E id \in ShapeIdSet, k \in UserKeys : UserUnlockPage(id, k)
    \/ \E id \in OtherIds : UserDeleteShape(id)

SpecZOrder == InitZOrder /\ [][NextZOrder]_vars

\* The pinned shapes that exist are the lowest siblings, in page order.
PinnedAtBottom(st) ==
    LET siblings == SortByIndex(DOMAIN st, st)
        pinned == SelectSeq(ShapeIds, LAMBDA id : id \in DOMAIN st)
    IN  \A i \in DOMAIN pinned : siblings[i] = pinned[i]

HasOtherSibling(st) == \E id \in DOMAIN st : id \notin ShapeIdSet

\* C4: once the handlers of a user creation or change have run, and the page
\* has a non-pinned sibling, no such sibling lies below a pinned shape: the
\* pinned shapes are the bottom siblings, contiguously.
C4_PinnedBelowAfterHandlers ==
    (pending = 0 /\ HasOtherSibling(store)) => PinnedAtBottom(store)

\* C4 witness: the user put a shape below the pages and the fix-up has moved
\* the pages under it.
C4_Witness ==
    /\ pending = 0
    /\ updates = 1
    /\ lastUser \in {"create", "change"}
    /\ HasOtherSibling(store)
    /\ PinnedAtBottom(store)

OtherSiblings(st) == DOMAIN st \ ShapeIdSet

\* C38: a fix-up pass changes only the ordering keys of pinned shapes: every
\* non-pinned sibling keeps its record, index included, the non-pinned
\* siblings keep their relative order, no shape appears or disappears, and a
\* pinned shape keeps every field but its index.
C38_FixupTouchesOnlyPinnedKeys ==
    LET r == MakeSureShapesAreAtBottom(store)
    IN  /\ DOMAIN r.store = DOMAIN store
        /\ \A id \in OtherSiblings(store) : r.store[id] = store[id]
        /\ \A a, b \in OtherSiblings(store) :
              Before(r.store, a, b) <=> Before(store, a, b)
        /\ \A id \in ShapeIdSet \cap DOMAIN store :
              r.store[id] = [store[id] EXCEPT !.index = r.store[id].index]

\* C38 witness: the user has moved an annotation below a page, a second
\* annotation is on the page, and the pass about to run moves the pages.
C38_Witness ==
    /\ lastUser = "change"
    /\ pending > 0
    /\ Cardinality(OtherSiblings(store)) = NumOthers
    /\ LET r == MakeSureShapesAreAtBottom(store)
       IN  /\ r.called
           /\ \E id \in ShapeIdSet : r.store[id].index # store[id].index

\* Store st with only the shapes of S on the page.
Restrict(st, S) == [id \in S \cap DOMAIN st |-> st[id]]

\* The pages makeSureShapesAreAtBottom may be called on: those createShapes
\* leaves, and the same with the page shapes gone, or with every shape gone
\* (the returns of the function for ids that resolve to nothing and for a
\* page without siblings).
FixupInputs ==
    {Restrict(CreateShapes(st), S) :
        st \in Snapshots, S \in {ShapeIdSet \cup OtherIds, OtherIds, {}}}

\* The fix-up as a function of the page: a call on each input, and the
\* handlers its updateShapes queues.
InitFixup ==
    /\ store \in FixupInputs
    /\ pending = 1
    /\ updates = 0
    /\ lastUser = "none"
    /\ IdleSched /\ IdleLayout /\ IdleButton /\ IdleLoad /\ IdleCodec
    /\ IdleCamera /\ IdleTeardown /\ IdleFilter /\ IdleStamp /\ IdleRace /\ IdleRestore

NextFixup == RunHandler

SpecFixup == InitFixup /\ [][NextFixup]_vars

\* The three cases in which the function is to do nothing.
NoSiblings(st) == DOMAIN st = {}
NoPinnedResolves(st) == ShapeIdSet \cap DOMAIN st = {}
BottomIsPinned(st) ==
    /\ ShapeIdSet \subseteq DOMAIN st
    /\ SubSeq(SortByIndex(DOMAIN st, st), 1, NumPinned) = ShapeIds

\* C39: makeSureShapesAreAtBottom calls updateShapes no more, and leaves the
\* store as it is, when the page has no siblings, when no pinned id resolves
\* to a shape, or when the bottom siblings already are the pinned shapes in
\* page order.
C39_NoUpdateCases ==
    (NoSiblings(store) \/ NoPinnedResolves(store) \/ BottomIsPinned(store))
        => LET r == MakeSureShapesAreAtBottom(store)
           IN  ~r.called /\ r.store = store

\* C39 witness: the one update of the chain has put the pages under the
\* annotations, and the handlers it queued have all run on that page without
\* another update.
C39_Witness ==
    /\ pending = 0
    /\ updates = 1
    /\ BottomIsPinned(store)
    /\ HasOtherSibling(store)

\* The handler invocations still to come on store st with p handlers queued:
\* those queued, and those the next updateShapes call can queue (one for
\* every page shape, and its own).
FixupRank(st, p) ==
    p + (IF MakeSureShapesAreAtBottom(st).called THEN NumPinned + 1 ELSE 0)

\* C28: the chain of handlers queued by one mutation, those queued by the
\* fix-up's own updateShapes included, terminates: every invocation lowers
\* the number of invocations still to come, updateShapes is called at most
\* once in the chain, and the invocation that ends the chain calls it no more
\* and leaves the store as it is.
C28_FixupChainTerminates ==
    /\ updates <= 1
    /\ pending > 0 =>
          LET n == HandlerStep(store, pending, updates)
          IN  /\ FixupRank(n.store, n.pending) < FixupRank(store, pending)
              /\ n.updates <= 1
              /\ n.pending = 0 => ~MakeSureShapesAreAtBottom(store).called
                                   /\ n.store = store

\* C28 witness: the fix-up has called updateShapes for a user mutation and the
\* after-change handlers of the page shapes it moved are queued.
C28_Witness ==
    /\ updates = 1
    /\ pending > 1
    /\ lastUser \in {"create", "change"}
    /\ ~MakeSureShapesAreAtBottom(store).called

\* C6: every pinned shape is locked in every state; the guard answers an
\* unlocking change of a pinned shape with the previous record, locked, and
\* lets every change of another shape through unmodified.
C6_PinnedAlwaysLocked ==
    /\ \A id \in ShapeIdSet \cap DOMAIN store : store[id].isLocked
    /\ \A id \in DOMAIN store, k \in UserKeys, locked \in BOOLEAN :
          LET next == Shape(k, locked)
              kept == BeforeChangeHandler(id, store[id], next)
          IN  /\ id \notin ShapeIdSet => kept = next
              /\ (id \in ShapeIdSet /\ ~locked) => kept = store[id]

\* C6 witness: the user has tried to unlock a page and it is still locked.
C6_Witness ==
    /\ lastUser = "unlock"
    /\ HasOtherSibling(store)
    /\ \A id \in ShapeIdSet : id \in DOMAIN store /\ store[id].isLocked

----------------------------------------------------------------------------
(***************************************************************************)
(* Page layout: initializeFromPageImages (src/src/App.tsx, lines 36-80)    *)
(* and initializePdf (lines 168-223), which places the pages by the same   *)
(* algorithm. An image is its natural size <<width, height>>.              *)
(***************************************************************************)
MaxPages == 2      \* page images in one configuration

pageSpacing == 32

Widths == {100, 150}      \* they differ by even numbers: the centring is exact
Heights == {200, 300}
Images == [width : Widths, height : Heights]
ImageLists == UNION {[1..n -> Images] : n \in 0..MaxPages}

Box(x, y, w, h) == [x |-> x, y |-> y, w |-> w, h |-> h]

Max(a, b) == IF a > b THEN a ELSE b

\* Mutant of NextTop: the pages are stacked without the gap.
NextTop_NoSpacing(t, height) == t + height

\* top += height + pageSpacing
NextTop(t, height) == t + height + pageSpacing

\* for (const page of pages) page.bounds.x = (widest - page.bounds.width) / 2
CenterPages(ps, w) ==
    [i \in DOMAIN ps |-> [ps[i] EXCEPT !.x = (w - ps[i].w) \div 2]]

UrlGenerations == {"v1", "v2"}

\* A message event is dispatched between tasks, never inside the mount effect.
Dispatchable == bootPc \in {0, Len(BootSteps)}

PdfMsg(p, u) == [type |-> "pdf", path |-> p, urls |-> u]

\* Mutant of HandleMessage: the run starts at the top the last run ended at.
HandleMessage_KeepsTop(imgs, p, u) ==
    /\ listening
    /\ Dispatchable
    /\ layoutPc \in {"idle", "done", "failed"}
    /\ pageImages' = imgs
    /\ pages' = <<>>
    /\ top' = top
    /\ widest' = 0
    /\ layoutPc' = "loading"
    /\ msg' = PdfMsg(p, u)
    /\ lastMsg' = PdfMsg(p, u)
    /\ UNCHANGED <<phase, pdf, bootPc, listening, sent, config, pdfSrc, canvasSrc>>
    /\ UNCHANGED notLayout

\* handleMessage({type: 'pdf', page_images, path}): initializeFromPageImages
\* starts on images imgs, whose urls are of generation u.
HandleMessage(imgs, p, u) ==
    /\ listening
    /\ Dispatchable
    /\ layoutPc \in {"idle", "done", "failed"}
    /\ pageImages' = imgs
    /\ pages' = <<>>
    /\ top' = 0
    /\ widest' = 0
    /\ layoutPc' = "loading"
    /\ msg' = PdfMsg(p, u)
    /\ lastMsg' = PdfMsg(p, u)
    /\ UNCHANGED <<phase, pdf, bootPc, listening, sent, config, pdfSrc, canvasSrc>>
    /\ UNCHANGED notLayout

\* img.onload for the next page: one turn of the loop.
LoadImage ==
    /\ layoutPc = "loading"
    /\ Len(pages) < Len(pageImages)
    /\ LET img == pageImages[Len(pages) + 1]
       IN  /\ pages' = Append(pages, Box(0, top, img.width, img.height))
           /\ top' = NextTop(top, img.height)
           /\ widest' = Max(widest, img.width)
    /\ UNCHANGED <<phase, pdf, pageImages, layoutPc, bootPc, listening, sent, msg,
                   config, pdfSrc, canvasSrc, lastMsg>>
    /\ UNCHANGED notLayout

\* Mutant of LoadImageError: the pages probed so far are put in the state.
LoadImageError_KeepsPartial ==
    /\ layoutPc = "loading"
    /\ Len(pages) < Len(pageImages)
    /\ layoutPc' = "failed"
    /\ pdf' = pages
    /\ phase' = "edit"
    /\ UNCHANGED <<pageImages, pages, top, widest, bootPc, listening,
                   sent, msg, config, pdfSrc, canvasSrc, lastMsg>>
    /\ UNCHANGED notLayout

\* img.onerror: the promise rejects, handleMessage logs it and sets no state.
LoadImageError ==
    /\ layoutPc = "loading"
    /\ Len(pages) < Len(pageImages)
    /\ layoutPc' = "failed"
    /\ UNCHANGED <<phase, pdf, pageImages, pages, top, widest, bootPc, listening,
                   sent, msg, config, pdfSrc, canvasSrc, lastMsg>>
    /\ UNCHANGED notLayout

\* What Tldraw's onMount puts on the canvas: it runs once, when PdfEditor is
\* first rendered (the phase leaves 'loading'); later props do not run it again.
MountSrc(ph, current, u) == IF ph = "loading" THEN u ELSE current

\* After the loop: the pages are centred, the Pdf is returned and handleMessage
\* sets the state to the edit phase with it.
FinishLayout ==
    /\ layoutPc = "loading"
    /\ Len(pages) = Len(pageImages)
    /\ pages' = CenterPages(pages, widest)
    /\ pdf' = pages'
    /\ phase' = "edit"
    /\ layoutPc' = "done"
    /\ config' = [type |-> "pdf", path |-> msg.path]
    /\ pdfSrc' = msg.urls
    /\ canvasSrc' = MountSrc(phase, canvasSrc, IF pages = <<>> THEN "none" ELSE msg.urls)
    /\ UNCHANGED <<pageImages, top, widest, bootPc, listening, sent, msg, lastMsg>>
    /\ UNCHANGED notLayout

InitLayout == IdleLayout /\ IdleSched /\ IdleZ /\ IdleButton /\ IdleLoad /\ IdleCodec /\ IdleCamera /\ IdleTeardown /\ IdleFilter /\ IdleStamp /\ IdleRace /\ IdleRestore

NextLayout ==
    \/ \E imgs \in ImageLists : HandleMessage(imgs, NoPath, "v1")
    \/ LoadImage
    \/ LoadImageError
    \/ FinishLayout

SpecLayout == InitLayout /\ [][NextLayout]_vars

RECURSIVE SumHeights(_, _)
SumHeights(imgs, n) == IF n = 0 THEN 0 ELSE SumHeights(imgs, n - 1) + imgs[n].height

MaxWidth(imgs) ==
    CHOOSE w \in {imgs[i].width : i \in DOMAIN imgs} :
        \A i \in DOMAIN imgs : imgs[i].width <= w

\* The configuration of the scenario: pages of 100x200 and 150x300.
ScenarioImages ==
    <<[width |-> 100, height |-> 200], [width |-> 150, height |-> 300]>>

\* C7: when the layout of a list of page images is done, the placements are
\* in input order; placement i has y = the heights of the pages before it
\* plus 32 for each of them, x = (the largest width of all pages - its width)
\* / 2, and the image's width and height; pages of 100x200 and 150x300 are
\* placed at (25, 0, 100, 200) and (0, 232, 150, 300).
C7_LayoutPlacements ==
    layoutPc = "done" =>
        /\ Len(pdf) = Len(pageImages)
        /\ \A i \in DOMAIN pdf :
              /\ pdf[i].y = SumHeights(pageImages, i - 1) + 32 * (i - 1)
              /\ i > 1 => pdf[i].y = pdf[i - 1].y + pdf[i - 1].h + 32
              /\ 2 * pdf[i].x = MaxWidth(pageImages) - pageImages[i].width
              /\ pdf[i].w = pageImages[i].width
              /\ pdf[i].h = pageImages[i].height
        /\ pageImages = ScenarioImages =>
              pdf = <<Box(25, 0, 100, 200), Box(0, 232, 150, 300)>>

\* C7 witness: the scenario has been laid out and handed to the editor.
C7_Witness ==
    /\ layoutPc = "done"
    /\ phase = "edit"
    /\ pageImages = ScenarioImages
    /\ pdf[1].x = 25
    /\ pdf[2].y = 232

----------------------------------------------------------------------------
(***************************************************************************)
(* SaveDrawingsButton (src/src/PdfEditor.tsx, lines 82-171). The button    *)
(* receives the path as a prop; the components memo depends on path, so a  *)
(* new path mounts a new button while the calls of the old one run on.     *)
(***************************************************************************)
MaxAttempts == 2   \* handleSave calls awaiting their response at once

ButtonPaths == {"docs/a.json", "docs/b.json"}

\* What fetch gives back: the promise rejects, or a response whose ok flag is
\* set (2xx) or not and whose body is JSON or not.
FetchResults ==
    {[rejected |-> TRUE, ok |-> FALSE, json |-> FALSE]}
    \cup [rejected : {FALSE}, ok : BOOLEAN, json : BOOLEAN]

\* handleSave after `await fetch(...)`: the message posted for result r of the
\* call made with path p. response.json() is awaited before response.ok is read.
ButtonMessage(p, r) ==
    IF r.rejected
    THEN Msg("SAVE_ERROR", NoPath, "Failed to fetch")
    ELSE IF ~r.json
    THEN Msg("SAVE_ERROR", NoPath, "Unexpected end of JSON input")
    ELSE IF ~r.ok
    THEN Msg("SAVE_ERROR", NoPath, "Failed to upload drawings")
    ELSE Msg("SAVE_COMPLETE", p, "")

\* PdfEditor is rendered with another path: a new button is mounted.
SetPath(p) ==
    /\ p # path
    /\ path' = p
    /\ saving' = FALSE
    /\ attempts' = Orphan(attempts)
    /\ UNCHANGED <<posted, lastResponse>>
    /\ UNCHANGED notButton

\* onClick={handleSave} with disabled={isSaving || !path}, up to the fetch.
ClickSave ==
    /\ ~(saving \/ path = NoPath)
    /\ Len(attempts) < MaxAttempts
    /\ attempts' = HandleSaveStart(path, "manual", attempts)
    /\ saving' = (path # NoPath)
    /\ UNCHANGED <<path, posted, lastResponse>>
    /\ UNCHANGED notButton

\* The fetch of attempt i settles with r: one message is posted, and finally
\* setIsSaving(false) (it shows only if the calling button is still mounted).
FetchSettled(i, r) ==
    /\ i \in DOMAIN attempts
    /\ Len(posted) < MaxOutbox
    /\ posted' = Append(posted, ButtonMessage(attempts[i].path, r))
    /\ saving' = IF attempts[i].live THEN FALSE ELSE saving
    /\ attempts' = RemoveAt(attempts, i)
    /\ lastResponse' = [path |-> attempts[i].path, result |-> r]
    /\ UNCHANGED path
    /\ UNCHANGED notButton

\* The host page takes the oldest message.
HostTakes ==
    /\ posted # <<>>
    /\ posted' = Tail(posted)
    /\ UNCHANGED <<path, saving, attempts, lastResponse>>
    /\ UNCHANGED notButton

InitButton == IdleButton /\ IdleSched /\ IdleZ /\ IdleLayout /\ IdleLoad /\ IdleCodec /\ IdleCamera /\ IdleTeardown /\ IdleFilter /\ IdleStamp /\ IdleRace /\ IdleRestore

NextButton ==
    \/ \E p \in ButtonPaths \cup {NoPath} : SetPath(p)
    \/ ClickSave
    \/ \E i \in 1..MaxAttempts, r \in FetchResults : FetchSettled(i, r)
    \/ HostTakes

SpecButton == InitButton /\ [][NextButton]_vars

\* C10: every save attempt that issued an upload ends with exactly one
\* message: SAVE_COMPLETE with the attempt's path when the response is a
\* success, SAVE_ERROR with a message otherwise (a rejected fetch or a
\* non-success response), and never SAVE_COMPLETE in that case.
C10_OneEventMatchingResponse ==
    [][Len(attempts') < Len(attempts) =>
          /\ Len(posted') = Len(posted) + 1
          /\ LET m == posted'[Len(posted')]
                 r == lastResponse'.result
             IN  IF ~r.rejected /\ r.ok
                 THEN m = Msg("SAVE_COMPLETE", lastResponse'.path, "")
                 ELSE m.type = "SAVE_ERROR" /\ m.error # ""]_vars

----------------------------------------------------------------------------
(***************************************************************************)
(* Host bridge: the mount effect of PdfEditorWrapper and handleMessage     *)
(* (src/src/App.tsx, lines 85-123). The host may post a message at any     *)
(* time; one that arrives while no listener is registered is lost.         *)
(***************************************************************************)
BridgeLists == {<<>>, <<[width |-> 100, height |-> 200]>>,
                <<[width |-> 100, height |-> 200], [width |-> 150, height |-> 300]>>}

ReadyPosted == \E i \in DOMAIN sent : sent[i] = "EDITOR_READY"

Count(seq, t) == Cardinality({i \in DOMAIN seq : seq[i] = t})

\* The next statement of the mount effect.
BootStep ==
    /\ bootPc < Len(BootSteps)
    /\ bootPc' = bootPc + 1
    /\ IF BootSteps[bootPc + 1] = "listen"
       THEN listening' = TRUE /\ UNCHANGED sent
       ELSE sent' = Append(sent, "EDITOR_READY") /\ UNCHANGED listening
    /\ UNCHANGED <<phase, pdf, pageImages, pages, top, widest, layoutPc, msg,
                   config, pdfSrc, canvasSrc, lastMsg>>
    /\ UNCHANGED notLayout

\* handleMessage({type: 'whiteboard', path}): the state is set at once, with
\* no pdf.
HandleWhiteboard(p) ==
    /\ listening
    /\ Dispatchable
    /\ phase' = "edit"
    /\ pdf' = <<>>
    /\ config' = [type |-> "whiteboard", path |-> p]
    /\ pdfSrc' = "none"
    /\ canvasSrc' = MountSrc(phase, canvasSrc, "none")
    /\ lastMsg' = [type |-> "whiteboard", path |-> p, urls |-> "none"]
    /\ UNCHANGED <<pageImages, pages, top, widest, layoutPc, bootPc, listening,
                   sent, msg>>
    /\ UNCHANGED notLayout

\* handleMessage with any other type (the url refresh {type: 'UPDATE_URLS',
\* page_images} among them): neither branch is taken.
HandleOther(t, u) ==
    /\ listening
    /\ Dispatchable
    /\ lastMsg' = [type |-> t, path |-> NoPath, urls |-> u]
    /\ UNCHANGED <<phase, pdf, pageImages, pages, top, widest, layoutPc, bootPc,
                   listening, sent, msg, config, pdfSrc, canvasSrc>>
    /\ UNCHANGED notLayout

\* A message posted by the host while no listener is registered.
MissMessage ==
    /\ ~listening
    /\ Dispatchable
    /\ lastMsg' = [type |-> "missed", path |-> NoPath, urls |-> "none"]
    /\ UNCHANGED <<phase, pdf, pageImages, pages, top, widest, layoutPc, bootPc,
                   listening, sent, msg, config, pdfSrc, canvasSrc>>
    /\ UNCHANGED notLayout

\* PdfEditorWrapper rendered, its mount effect not yet run.
InitBridge ==
    /\ phase = "loading"
    /\ pdf = <<>>
    /\ pageImages = <<>>
    /\ pages = <<>>
    /\ top = 0
    /\ widest = 0
    /\ layoutPc = "idle"
    /\ bootPc = 0
    /\ listening = FALSE
    /\ sent = <<>>
    /\ msg = NoMsg
    /\ config = NoConfig
    /\ pdfSrc = "none"
    /\ canvasSrc = "none"
    /\ lastMsg = NoMsg
    /\ IdleSched /\ IdleZ /\ IdleButton /\ IdleLoad /\ IdleCodec /\ IdleCamera /\ IdleTeardown /\ IdleFilter /\ IdleStamp /\ IdleRace /\ IdleRestore

NextBridge ==
    \/ BootStep
    \/ MissMessage
    \/ \E imgs \in BridgeLists, p \in Paths \cup {NoPath}, u \in UrlGenerations :
          HandleMessage(imgs, p, u)
    \/ \E p \in Paths \cup {NoPath} : HandleWhiteboard(p)
    \/ \E u \in UrlGenerations : HandleOther("UPDATE_URLS", u)
    \/ LoadImage
    \/ LoadImageError
    \/ FinishLayout

SpecBridge == InitBridge /\ [][NextBridge]_vars

\* C11: EDITOR_READY is posted exactly once, by the mount effect; the message
\* listener is registered whenever it has been posted; no configuration is
\* processed before it, and no message that arrives after it is lost.
C11_ReadyOnceListenerFirst ==
    /\ [](ReadyPosted => listening)
    /\ [](Count(sent, "EDITOR_READY") <= 1)
    /\ [](bootPc = Len(BootSteps) => Count(sent, "EDITOR_READY") = 1)
    /\ [](lastMsg.type \in {"pdf", "whiteboard", "UPDATE_URLS"} => ReadyPosted)
    /\ [][(lastMsg' # lastMsg /\ lastMsg'.type = "missed") => ~ReadyPosted]_vars

\* C11 witness: a configuration sent after EDITOR_READY has been laid out and
\* put in the state.
C11_Witness ==
    /\ sent = <<"EDITOR_READY">>
    /\ lastMsg.type = "pdf"
    /\ phase = "edit"
    /\ config # NoConfig
    /\ Len(pdf) > 0

LayoutFailed == layoutPc = "loading" /\ layoutPc' = "failed"

\* C14: when the layout of a document configuration fails on a page image,
\* one LOAD_ERROR is posted to the host.
C14_LayoutFailurePostsLoadError ==
    [][LayoutFailed => sent' = Append(sent, "LOAD_ERROR")]_vars

\* C15: a failed probe of a page image leaves the session state as it was:
\* the phase, the pdf, the config and the canvas keep their values (nothing of
\* the pages probed so far reaches them), and while the phase is 'loading'
\* there is no pdf, no config and nothing on the canvas.
C15_LayoutFailsAtomically ==
    /\ [][LayoutFailed => UNCHANGED <<phase, pdf, config, pdfSrc, canvasSrc>>]_vars
    /\ [](phase = "loading" => pdf = <<>> /\ config = NoConfig /\ canvasSrc = "none")

\* C15 witness: the second image of the first configuration failed after the
\* first was probed, and the session is still loading with no pdf.
C15_Witness ==
    /\ layoutPc = "failed"
    /\ Len(pages) > 0
    /\ phase = "loading"
    /\ pdf = <<>>

\* C19: an UPDATE_URLS message for a session that shows a document puts the
\* new urls on the canvas images and leaves the placements and the config
\* (the destination path) as they were.
C19_UpdateUrlsRefreshesSources ==
    [][(lastMsg' # lastMsg /\ lastMsg'.type = "UPDATE_URLS" /\ canvasSrc # "none") =>
          /\ canvasSrc' = lastMsg'.urls
          /\ config' = config
          /\ pdf' = pdf]_vars

\* Mutant of Union: the accumulator is returned as it was.
Union_KeepsFirst(a, b) == a

\* Box.union of tldraw, as the reducer calls it: acc.union(page.bounds) grows
\* acc to the smallest box that holds both.
Union(a, b) ==
    LET minX == Min(a.x, b.x)
        minY == Min(a.y, b.y)
        maxX == Max(a.x + a.w, b.x + b.w)
        maxY == Max(a.y + a.h, b.y + b.h)
    IN  Box(minX, minY, maxX - minX, maxY - minY)

\* pdf.pages.reduce((acc, page) => acc.union(page.bounds), over the first
\* n pages, starting from pdf.pages[0].bounds.clone().
RECURSIVE ReduceUnion(_, _)
ReduceUnion(ps, n) ==
    IF n = 0 THEN ps[1] ELSE Union(ReduceUnion(ps, n - 1), ps[n])

\* targetBounds, which updateCameraBounds puts in the camera constraints.
TargetBounds(ps) == ReduceUnion(ps, Len(ps))

Inside(b, outer) ==
    /\ outer.x <= b.x
    /\ outer.y <= b.y
    /\ b.x + b.w <= outer.x + outer.w
    /\ b.y + b.h <= outer.y + outer.h

\* C27: for the placements of a non-empty layout, the bounds computed for the
\* camera constraints are the box (0, 0, largest width, sum of the heights +
\* 32 for each page but the first), and every placement lies inside it.
C27_CameraBoundsAreUnion ==
    (layoutPc = "done" /\ Len(pdf) > 0) =>
        LET n == Len(pageImages)
        IN  /\ TargetBounds(pdf) =
                  Box(0, 0, MaxWidth(pageImages),
                      SumHeights(pageImages, n) + 32 * (n - 1))
            /\ \A i \in DOMAIN pdf : Inside(pdf[i], TargetBounds(pdf))

\* C27 witness: the pages of 100x200 and 150x300 are laid out; the first, at
\* x = 25, does not span the bounds, which are (0, 0, 150, 532).
C27_Witness ==
    /\ layoutPc = "done"
    /\ pageImages = ScenarioImages
    /\ pdf[1].x = 25
    /\ TargetBounds(pdf) = Box(0, 0, 150, 532)
    /\ TargetBounds(pdf) # pdf[1]

\* The placements ps are those of the images imgs, in order.
PlacedFrom(ps, imgs) ==
    /\ Len(ps) = Len(imgs)
    /\ \A i \in DOMAIN ps : ps[i].w = imgs[i].width /\ ps[i].h = imgs[i].height

\* A layout run ends while the session shows the placements of the same images.
RerunEnds ==
    /\ layoutPc = "loading"
    /\ layoutPc' = "done"
    /\ phase = "edit"
    /\ Len(pdf) > 0
    /\ PlacedFrom(pdf, pageImages)

\* C26: a layout run on the ordered list of images whose placements the
\* session already shows (same dimensions, same order) ends with the same
\* placement bounds; the generation of the image urls may differ.
C26_LayoutDeterministic ==
    [][RerunEnds => pdf' = pdf]_vars

\* C26 witness: a second run on the two images of the session's document,
\* sent with refreshed urls, has probed both and is about to hand over the
\* same placements.
C26_Witness ==
    /\ layoutPc = "loading"
    /\ phase = "edit"
    /\ Len(pdf) = 2
    /\ PlacedFrom(pdf, pageImages)
    /\ Len(pages) = 2
    /\ CenterPages(pages, widest) = pdf
    /\ msg.urls # pdfSrc

----------------------------------------------------------------------------
(***************************************************************************)
(* Editor start-up: the asynchronous initialization of PdfEditor.onMount   *)
(* and, in part_002, the load-state effect. Five sources are modelled:     *)
(*   "part_000_first" src/unnamed/part_000, lines 1-333                    *)
(*   "part_000"       src/unnamed/part_000, lines 790-1125                 *)
(*   "part_001"       src/unnamed/part_001                                 *)
(*   "part_002"       src/unnamed/part_002                                 *)
(*   "PdfEditor.tsx"  src/src/PdfEditor.tsx                                *)
(* part_000 and part_002 read the prior state from the path; part_001 and  *)
(* PdfEditor.tsx read it from the state_url / signed_url reference.        *)
(***************************************************************************)
MaxEdits == 1      \* store changes of the user after the mount

Variants == {"part_000_first", "part_000", "part_001", "part_002", "PdfEditor.tsx"}

PropsSet == [type : {"pdf", "whiteboard"}, hasPath : BOOLEAN,
             ref : {"none", "inline", "url"}]

\* How the read of a prior state can end: loaded, payload not base64 / not
\* JSON / not a snapshot, response not ok, fetch rejected.
PriorResults == {"ok", "malformed", "not_ok", "rejected"}

RefVariant(v) == v \in {"part_001", "PdfEditor.tsx"}

\* The synchronous part of onMount: the store listeners it installs.
ListenersAtMount(v, pr) ==
    IF v \in {"part_000_first", "part_001"}
       \/ (v = "PdfEditor.tsx" /\ pr.type = "whiteboard")
    THEN <<"listener">>
    ELSE <<>>

\* Where the initialization goes after the `if (pdf && pdf.pages.length > 0)`
\* block (pathRef.current is read at this moment).
AfterPdfBlock(v, pr) ==
    CASE v = "part_000" -> IF pr.hasPath THEN "prior" ELSE "post"
      [] v = "part_002" -> IF pr.hasPath THEN "effect" ELSE "stalled"
      [] OTHER          -> "post"

\* What follows createAssets / createShapes inside the block.
SetupSteps(v) ==
    IF RefVariant(v)
    THEN <<"materialized", "guards", "camera">>
    ELSE <<"materialized", "camera">>

\* What a rejected createAssets / createShapes posts.
MaterializeFailurePosts(v) ==
    CASE v = "part_000" -> <<"LOAD_ERROR">>
      [] v = "part_002" -> <<"INIT_ERROR">>
      [] OTHER          -> <<>>

\* Mutant of EffectOutcome: the failure path falls through to the success path.
EffectOutcome_Both(r) ==
    IF r = "ok" THEN <<"LOAD_COMPLETE">> ELSE <<"LOAD_ERROR", "LOAD_COMPLETE">>

\* part_002's load-state effect: the message it posts for result r.
EffectOutcome(r) ==
    IF r = "ok" THEN <<"LOAD_COMPLETE">> ELSE <<"LOAD_ERROR">>

\* Mutant of EffectNextPc: a failed load leaves isStateLoaded false and the
\* effect is run again.
EffectNextPc_RetryOnFailure(r) == IF r = "ok" THEN "done" ELSE "effect"

\* part_002's load-state effect calls setIsStateLoaded(true) on success and in
\* its catch: the re-run of the effect that follows returns at its guard.
EffectNextPc(r) == "done"

\* The results a reference of kind ref can have.
ResultsOf(ref) ==
    CASE ref = "inline" -> {"ok", "malformed"}
      [] ref = "url"    -> PriorResults
      [] OTHER          -> {"ok"}

PriorStep(r) == IF r = "ok" THEN "prior_loaded" ELSE "prior_failed"

\* Tldraw calls onMount: the synchronous part runs, the async part starts.
OnMount ==
    /\ loadPc = "mount"
    /\ steps' = steps \o ListenersAtMount(variant, props)
    /\ loadPc' = IF variant = "part_000_first"
                 THEN (IF props.hasPath THEN "prior" ELSE "camera")
                 ELSE IF props.type = "pdf" THEN "materialize"
                 ELSE AfterPdfBlock(variant, props)
    /\ UNCHANGED <<variant, props, loadOut>>
    /\ UNCHANGED notLoad

\* createAssets / createShapes settle; on success the rest of the block runs.
Materialize(ok) ==
    /\ loadPc = "materialize"
    /\ IF ok
       THEN /\ steps' = steps \o SetupSteps(variant)
            /\ loadPc' = IF RefVariant(variant) THEN "prior"
                         ELSE AfterPdfBlock(variant, props)
            /\ UNCHANGED loadOut
       ELSE /\ loadOut' = loadOut \o MaterializeFailurePosts(variant)
            /\ loadPc' = "dead"
            /\ UNCHANGED steps
    /\ UNCHANGED <<variant, props>>
    /\ UNCHANGED notLoad

\* loadPreviousDrawings (part_001, PdfEditor.tsx) or the inner try of part_000
\* (in its first source the read comes first, before the camera is set up):
\* every failure is caught and logged to the console.
LoadPrior(r) ==
    /\ loadPc = "prior"
    /\ r \in ResultsOf(IF RefVariant(variant) THEN props.ref ELSE "url")
    /\ steps' = IF RefVariant(variant) /\ props.ref = "none"
                THEN steps
                ELSE Append(steps, PriorStep(r))
    /\ loadPc' = IF variant = "part_000_first" THEN "camera" ELSE "post"
    /\ UNCHANGED <<variant, props, loadOut>>
    /\ UNCHANGED notLoad

\* The first source of part_000 after the read of the prior state: the
\* camera is set up if there is a pdf (nothing is materialized here).
SetUpCamera ==
    /\ loadPc = "camera"
    /\ steps' = IF props.type = "pdf" THEN Append(steps, "camera") ELSE steps
    /\ loadPc' = "post"
    /\ UNCHANGED <<variant, props, loadOut>>
    /\ UNCHANGED notLoad

\* part_002's load-state effect, run when isInitialized became true with a
\* path: fetch, loadSnapshot, setIsStateLoaded(true) and one message.
LoadStateEffect(r) ==
    /\ loadPc = "effect"
    /\ r \in PriorResults
    /\ steps' = Append(steps, PriorStep(r)) \o EffectOutcome(r)
    /\ loadOut' = loadOut \o EffectOutcome(r)
    /\ loadPc' = EffectNextPc(r)
    /\ UNCHANGED <<variant, props>>
    /\ UNCHANGED notLoad

\* window.parent.postMessage({ type: 'LOAD_COMPLETE' }) at the end of onMount.
PostComplete ==
    /\ loadPc = "post"
    /\ steps' = Append(steps, "LOAD_COMPLETE")
    /\ loadOut' = Append(loadOut, "LOAD_COMPLETE")
    /\ loadPc' = "done"
    /\ UNCHANGED <<variant, props>>
    /\ UNCHANGED notLoad

\* A later configuration changes the path prop (pathRef follows it); onMount
\* is not run again and the load-state effect does not depend on the path.
SetPathProp(hp) ==
    /\ loadPc # "mount"
    /\ hp # props.hasPath
    /\ props' = [props EXCEPT !.hasPath = hp]
    /\ UNCHANGED <<variant, loadPc, steps, loadOut>>
    /\ UNCHANGED notLoad

\* The user changes the store of a whiteboard in PdfEditor.tsx: the listener
\* installed at mount calls handleSave, which posts SAVE_STATE.
UserEdit ==
    /\ variant = "PdfEditor.tsx"
    /\ props.type = "whiteboard"
    /\ loadPc # "mount"
    /\ Count(loadOut, "SAVE_STATE") < MaxEdits
    /\ loadOut' = Append(loadOut, "SAVE_STATE")
    /\ UNCHANGED <<variant, props, loadPc, steps>>
    /\ UNCHANGED notLoad

\* PdfEditor rendered with the props of a configuration, onMount not yet run.
InitLoad ==
    /\ variant \in Variants
    /\ props \in PropsSet
    /\ loadPc = "mount"
    /\ steps = <<>>
    /\ loadOut = <<>>
    /\ IdleSched /\ IdleZ /\ IdleLayout /\ IdleButton /\ IdleCodec /\ IdleCamera /\ IdleTeardown /\ IdleFilter /\ IdleStamp /\ IdleRace /\ IdleRestore

NextLoad ==
    \/ OnMount
    \/ \E ok \in BOOLEAN : Materialize(ok)
    \/ \E r \in PriorResults : LoadPrior(r)
    \/ SetUpCamera
    \/ \E r \in PriorResults : LoadStateEffect(r)
    \/ PostComplete
    \/ \E hp \in BOOLEAN : SetPathProp(hp)
    \/ UserEdit

SpecLoad == InitLoad /\ [][NextLoad]_vars

\* Every step of the start-up that can run does run (promises settle).
FairLoad ==
    /\ SpecLoad
    /\ WF_vars(OnMount)
    /\ WF_vars(\E ok \in BOOLEAN : Materialize(ok))
    /\ WF_vars(\E r \in PriorResults : LoadPrior(r))
    /\ WF_vars(SetUpCamera)
    /\ WF_vars(\E r \in PriorResults : LoadStateEffect(r))
    /\ WF_vars(PostComplete)

Has(seq, t) == \E i \in DOMAIN seq : seq[i] = t

Position(seq, t) == CHOOSE i \in DOMAIN seq : seq[i] = t

LoadOutcomes(seq) == Count(seq, "LOAD_COMPLETE") + Count(seq, "LOAD_ERROR")

\* C12: for the configuration the editor was mounted with, at most one load
\* outcome is posted: LOAD_COMPLETE and LOAD_ERROR never both, neither twice
\* (a later configuration runs no start-up and adds none).
C12_AtMostOneLoadOutcome ==
    /\ LoadOutcomes(loadOut) <= 1
    /\ ~(Has(loadOut, "LOAD_COMPLETE") /\ Has(loadOut, "LOAD_ERROR"))

\* C12 witness: part_002's load-state effect failed and posted LOAD_ERROR.
C12_Witness ==
    /\ variant = "part_002"
    /\ loadPc = "done"
    /\ Has(steps, "prior_failed")
    /\ loadOut = <<"LOAD_ERROR">>

\* C13: every configuration part_002's editor is mounted with (document or
\* whiteboard, with or without a path) is eventually followed by a load
\* outcome, LOAD_COMPLETE or LOAD_ERROR.
C13_ConfigLeadsToOutcome ==
    (variant = "part_002" /\ loadPc = "mount") ~> (LoadOutcomes(loadOut) > 0)

\* C16: when reading the prior state fails, the start-up goes on to its end
\* (no exception escapes) and a LOAD_ERROR is posted to the host.
C16_PriorFailureReported ==
    (RefVariant(variant) /\ Has(steps, "prior_failed")) =>
        /\ loadPc \in {"post", "done"}
        /\ loadPc = "done" => Has(loadOut, "LOAD_ERROR")

Precedes(seq, a, b) == Has(seq, a) /\ Has(seq, b) /\ Position(seq, a) < Position(seq, b)

PriorAttempted(seq) == Has(seq, "prior_loaded") \/ Has(seq, "prior_failed")

\* C17: when part_001 posts LOAD_COMPLETE for a document configuration, the
\* steps before it were, in this order: assets and shapes materialized, lock
\* guard / z-order handlers and camera installed, the prior state read (if a
\* reference was given), the autosave listener installed.
C17_StartupOrder ==
    (variant = "part_001" /\ props.type = "pdf" /\ Has(steps, "LOAD_COMPLETE")) =>
        /\ steps[Len(steps)] = "LOAD_COMPLETE"
        /\ Precedes(steps, "materialized", "guards")
        /\ Precedes(steps, "guards", "camera")
        /\ props.ref # "none" =>
              /\ PriorAttempted(steps)
              /\ \A t \in {"prior_loaded", "prior_failed"} :
                    Has(steps, t) =>
                       Precedes(steps, "camera", t) /\ Precedes(steps, t, "listener")
        /\ Precedes(steps, "camera", "listener")
        /\ Precedes(steps, "listener", "LOAD_COMPLETE")

\* C18: when part_001 posts LOAD_COMPLETE for a whiteboard configuration,
\* nothing was materialized and no guard or camera constraint installed, and
\* a prior-state reference that was given has been read.
C18_WhiteboardLoadsPriorState ==
    (variant = "part_001" /\ props.type = "whiteboard" /\ Has(steps, "LOAD_COMPLETE")) =>
        /\ ~Has(steps, "materialized")
        /\ ~Has(steps, "guards")
        /\ ~Has(steps, "camera")
        /\ props.ref # "none" => PriorAttempted(steps)

HostTypes == {"EDITOR_READY", "LOAD_COMPLETE", "LOAD_ERROR", "SAVE_COMPLETE", "SAVE_ERROR"}

\* C20: every message posted to the host is of one of the five types
\* EDITOR_READY, LOAD_COMPLETE, LOAD_ERROR, SAVE_COMPLETE, SAVE_ERROR.
C20_OnlyFiveMessageTypes ==
    /\ \A i \in DOMAIN loadOut : loadOut[i] \in HostTypes
    /\ \A i \in DOMAIN sent : sent[i] \in HostTypes

PriorAttempts(seq) == Count(seq, "prior_loaded") + Count(seq, "prior_failed")

\* C22: in a session the prior state is read at most once by the start-up:
\* after an attempt has succeeded or failed no step makes another, whatever
\* the path prop becomes later.
C22_PriorStateReadAtMostOnce ==
    /\ [](PriorAttempts(steps) <= 1)
    /\ [][PriorAttempts(steps) = 1 => PriorAttempts(steps') = 1]_vars

\* C22 witness: part_002's load-state effect has failed, the path prop has
\* been taken away since, and that one attempt is the only one.
C22_Witness ==
    /\ variant = "part_002"
    /\ Has(steps, "prior_failed")
    /\ ~props.hasPath
    /\ PriorAttempts(steps) = 1

----------------------------------------------------------------------------
(***************************************************************************)
(* Snapshot codec (src/src/PdfEditor.tsx, lines 191-253). handleSave posts *)
(* btoa(JSON.stringify(getSnapshot(store))); the host wraps the text into  *)
(* a data URI and hands it back as signed_url; loadPreviousDrawings splits *)
(* it at the comma, applies atob and JSON.parse and calls loadSnapshot.    *)
(*                                                                         *)
(* A string is the sequence of its UTF-16 code units. The document and the *)
(* session of a snapshot are each modelled by one JSON string value, the   *)
(* text the user typed into a shape.                                       *)
(***************************************************************************)
MaxText == 2       \* code units in the text of the document / of the session

\* 'A', '"', '\', 'e' with acute accent (U+00E9), the euro sign (U+20AC).
CodeUnits == {65, 34, 92, 233, 8364}

Texts == UNION {[1..n -> CodeUnits] : n \in 0..MaxText}

SnapshotSet == [document : Texts, session : Texts]

\* JSON.stringify of a string value, without the enclosing quotes: the quote
\* and the backslash are escaped, every other unit here is copied as it is.
RECURSIVE Escape(_)
Escape(t) ==
    IF t = <<>> THEN <<>>
    ELSE (IF Head(t) \in {34, 92} THEN <<92, Head(t)>> ELSE <<Head(t)>>)
         \o Escape(Tail(t))

\* {"document":"  ","session":"  "}
JsonOpen == <<123, 34, 100, 111, 99, 117, 109, 101, 110, 116, 34, 58, 34>>
JsonMiddle == <<34, 44, 34, 115, 101, 115, 115, 105, 111, 110, 34, 58, 34>>
JsonClose == <<34, 125>>

\* JSON.stringify(currentState).
JsonStringify(snap) ==
    JsonOpen \o Escape(snap.document) \o JsonMiddle \o Escape(snap.session)
    \o JsonClose

\* The character of the base64 alphabet for a 6-bit value.
B64Char(v) ==
    IF v < 26 THEN 65 + v
    ELSE IF v < 52 THEN 97 + (v - 26)
    ELSE IF v < 62 THEN 48 + (v - 52)
    ELSE IF v = 62 THEN 43
    ELSE 47

B64Alphabet == {B64Char(v) : v \in 0..63}

B64Value(c) == CHOOSE v \in 0..63 : B64Char(v) = c

ByteAt(b, i) == IF i \in DOMAIN b THEN b[i] ELSE 0

\* btoa(text): throws InvalidCharacterError when a code unit is above 0xFF,
\* else three bytes give four characters, padded with '='.
Btoa(text) ==
    IF \E i \in DOMAIN text : text[i] > 255
    THEN [threw |-> TRUE, text |-> <<>>]
    ELSE LET n == Len(text)
             groups == (n + 2) \div 3
             triple(g) == ByteAt(text, 3 * g - 2) * 65536
                          + ByteAt(text, 3 * g - 1) * 256
                          + ByteAt(text, 3 * g)
             sextet(g, k) ==
                 CASE k = 0 -> triple(g) \div 262144
                   [] k = 1 -> (triple(g) \div 4096) % 64
                   [] k = 2 -> (triple(g) \div 64) % 64
                   [] OTHER -> triple(g) % 64
             inGroup(g) == Min(3, n - 3 * (g - 1))
         IN  [threw |-> FALSE,
              text |-> [j \in 1..(4 * groups) |->
                          LET g == (j - 1) \div 4 + 1
                              k == (j - 1) % 4
                          IN  IF k > inGroup(g) THEN 61
                              ELSE B64Char(sextet(g, k))]]

\* The data URI the host builds from the state of a SAVE_STATE message:
\* "data:;base64," followed by the state.
DataHeader == <<100, 97, 116, 97, 58, 59, 98, 97, 115, 101, 54, 52, 44>>

DataUri(state) == DataHeader \o state

\* Index of the first comma of text at or after i (Len(text) + 1 if none).
RECURSIVE CommaFrom(_, _)
CommaFrom(text, i) ==
    IF i > Len(text) THEN i
    ELSE IF text[i] = 44 THEN i
    ELSE CommaFrom(text, i + 1)

\* signed_url.split(',')[1]: the text between the first and the second comma;
\* undefined when there is no comma.
SplitSecond(text) ==
    LET first == CommaFrom(text, 1)
        second == CommaFrom(text, first + 1)
    IN  IF first > Len(text)
        THEN [defined |-> FALSE, text |-> <<>>]
        ELSE [defined |-> TRUE, text |-> SubSeq(text, first + 1, second - 1)]

\* atob(text): the padding is dropped, then four characters give three bytes;
\* throws on a character outside the alphabet or on an impossible length.
Atob(text) ==
    LET n == Len(text)
        pad == IF n % 4 = 0 /\ n >= 2 /\ text[n] = 61
               THEN (IF text[n - 1] = 61 THEN 2 ELSE 1)
               ELSE 0
        body == SubSeq(text, 1, n - pad)
        m == Len(body)
        value(i) == IF i \in DOMAIN body THEN B64Value(body[i]) ELSE 0
        quad(g) == value(4 * g + 1) * 262144 + value(4 * g + 2) * 4096
                   + value(4 * g + 3) * 64 + value(4 * g + 4)
    IN  IF (\E i \in DOMAIN body : body[i] \notin B64Alphabet) \/ m % 4 = 1
        THEN [threw |-> TRUE, text |-> <<>>]
        ELSE [threw |-> FALSE,
              text |-> [i \in 1..((m * 6) \div 8) |->
                          LET g == (i - 1) \div 3
                              k == (i - 1) % 3
                          IN  CASE k = 0 -> quad(g) \div 65536
                                [] k = 1 -> (quad(g) \div 256) % 256
                                [] OTHER -> quad(g) % 256]]

StartsAt(text, i, part) ==
    /\ i + Len(part) - 1 <= Len(text)
    /\ SubSeq(text, i, i + Len(part) - 1) = part

\* JSON.parse of a string value whose opening quote has been read: the value,
\* and the index of its closing quote.
RECURSIVE ReadString(_, _, _)
ReadString(text, i, acc) ==
    IF i > Len(text) THEN [ok |-> FALSE, value |-> <<>>, close |-> i]
    ELSE IF text[i] = 34 THEN [ok |-> TRUE, value |-> acc, close |-> i]
    ELSE IF text[i] = 92
    THEN (IF i + 1 <= Len(text) /\ text[i + 1] \in {34, 92}
          THEN ReadString(text, i + 2, Append(acc, text[i + 1]))
          ELSE [ok |-> FALSE, value |-> <<>>, close |-> i])
    ELSE ReadString(text, i + 1, Append(acc, text[i]))

\* JSON.parse(jsonStr): throws SyntaxError on anything but an object of the
\* shape JsonStringify writes.
JsonParse(text) ==
    LET failed == [threw |-> TRUE, value |-> NoSnapshot]
    IN  IF ~StartsAt(text, 1, JsonOpen) THEN failed
        ELSE LET doc == ReadString(text, Len(JsonOpen) + 1, <<>>)
             IN  IF ~doc.ok \/ ~StartsAt(text, doc.close, JsonMiddle) THEN failed
                 ELSE LET ses == ReadString(text, doc.close + Len(JsonMiddle), <<>>)
                      IN  IF \/ ~ses.ok
                             \/ ~StartsAt(text, ses.close, JsonClose)
                             \/ ses.close + Len(JsonClose) - 1 # Len(text)
                          THEN failed
                          ELSE [threw |-> FALSE,
                                value |-> [document |-> doc.value,
                                           session |-> ses.value]]

\* handleSave of a whiteboard: the state of the SAVE_STATE message, unless
\* btoa throws (nothing is posted then).
HandleSave ==
    /\ codecPc = "start"
    /\ LET b == Btoa(JsonStringify(snapshot))
       IN  IF b.threw
           THEN codecPc' = "save_threw" /\ UNCHANGED wire
           ELSE codecPc' = "posted" /\ wire' = b.text
    /\ UNCHANGED <<snapshot, restored>>
    /\ UNCHANGED notCodec

\* The host stores the state and later passes it back as signed_url.
HostWraps ==
    /\ codecPc = "posted"
    /\ wire' = DataUri(wire)
    /\ codecPc' = "wrapped"
    /\ UNCHANGED <<snapshot, restored>>
    /\ UNCHANGED notCodec

\* loadPreviousDrawings with signed_url starting with 'data:': every throw is
\* caught and logged.
LoadPreviousDrawings ==
    /\ codecPc = "wrapped"
    /\ LET part == SplitSecond(wire)
           bin == IF part.defined THEN Atob(part.text)
                  ELSE [threw |-> TRUE, text |-> <<>>]
           data == IF bin.threw THEN [threw |-> TRUE, value |-> NoSnapshot]
                   ELSE JsonParse(bin.text)
       IN  IF data.threw
           THEN codecPc' = "load_failed" /\ UNCHANGED restored
           ELSE codecPc' = "loaded" /\ restored' = data.value
    /\ UNCHANGED <<snapshot, wire>>
    /\ UNCHANGED notCodec

\* A whiteboard whose store the user has changed.
InitCodec ==
    /\ snapshot \in SnapshotSet
    /\ codecPc = "start"
    /\ wire = <<>>
    /\ restored = NoSnapshot
    /\ IdleSched /\ IdleZ /\ IdleLayout /\ IdleButton /\ IdleLoad /\ IdleCamera /\ IdleTeardown /\ IdleFilter /\ IdleStamp /\ IdleRace /\ IdleRestore

NextCodec ==
    \/ HandleSave
    \/ HostWraps
    \/ LoadPreviousDrawings

SpecCodec == InitCodec /\ [][NextCodec]_vars

\* C21: for every snapshot, a save followed by a reload through the inline
\* path ends with loadSnapshot called with a document and a session equal to
\* the snapshot's: the round trip never stops short of it.
C21_CodecRoundTrip ==
    /\ codecPc \in {"start", "posted", "wrapped", "loaded"}
    /\ codecPc = "loaded" => restored = snapshot

----------------------------------------------------------------------------
(***************************************************************************)
(* Camera controller (src/unnamed/part_000, lines 401-413 and 726-740; the *)
(* same code in part_001 and src/src/PdfEditor.tsx). onMount classifies    *)
(* the viewport, calls updateCameraBounds once and registers a reaction    *)
(* that tldraw runs at once and again whenever the viewport bounds change. *)
(***************************************************************************)
MaxResizes == 6    \* resizes of the viewport in one session

MobileBreakpoint == 840    \* getViewportScreenBounds().width < 840
NarrowPadding == 16        \* padding.x when isMobile
WidePadding == 164         \* padding.x otherwise

ViewportWidths == {320, 839, 840, 841, 1280}

\* editor.getViewportScreenBounds().width < 840
IsMobileNow(w) == w < MobileBreakpoint

\* padding: { x: isMobile ? 16 : 164, y: 64 }
PaddingFor(mobile) == IF mobile THEN NarrowPadding ELSE WidePadding

\* Mutant of ReactionApplies: the reaction re-applies on every run.
ReactionApplies_Always(now, was) == TRUE

\* The reaction goes on past `if (isMobileNow === isMobile) return`.
ReactionApplies(now, was) == now # was

\* One run of react('update camera', ...) with the viewport w wide.
RunReaction(w, mobile, pad, count) ==
    IF ReactionApplies(IsMobileNow(w), mobile)
    THEN [isMobile |-> IsMobileNow(w),
          paddingX |-> PaddingFor(IsMobileNow(w)),
          applications |-> count + 1]
    ELSE [isMobile |-> mobile, paddingX |-> pad, applications |-> count]

\* The editor is mounted in a viewport w wide.
MountViewport(w) ==
    /\ cameraPc = "idle"
    /\ cameraPc' = "mounted"
    /\ viewportWidth' = w
    /\ UNCHANGED <<isMobile, paddingX, applications, flips, resizes>>
    /\ UNCHANGED notCamera

\* onMount's camera set-up: let isMobile, updateCameraBounds, react(...) and
\* the first run of the reaction.
InstallCamera ==
    /\ cameraPc = "mounted"
    /\ LET mobile == IsMobileNow(viewportWidth)
           first == RunReaction(viewportWidth, mobile, PaddingFor(mobile), 1)
       IN  /\ isMobile' = first.isMobile
           /\ paddingX' = first.paddingX
           /\ applications' = first.applications
    /\ cameraPc' = "installed"
    /\ flips' = 0
    /\ UNCHANGED <<viewportWidth, resizes>>
    /\ UNCHANGED notCamera

\* The viewport is resized to width w; once the controller is installed the
\* reaction runs on the new bounds.
Resize(w) ==
    /\ cameraPc \in {"mounted", "installed"}
    /\ resizes < MaxResizes
    /\ w # viewportWidth
    /\ viewportWidth' = w
    /\ resizes' = resizes + 1
    /\ IF cameraPc = "installed"
       THEN LET run == RunReaction(w, isMobile, paddingX, applications)
            IN  /\ isMobile' = run.isMobile
                /\ paddingX' = run.paddingX
                /\ applications' = run.applications
                /\ flips' = IF IsMobileNow(w) # IsMobileNow(viewportWidth)
                            THEN flips + 1 ELSE flips
       ELSE UNCHANGED <<isMobile, paddingX, applications, flips>>
    /\ UNCHANGED cameraPc
    /\ UNCHANGED notCamera

InitCamera ==
    /\ IdleCamera /\ IdleTeardown /\ IdleFilter /\ IdleStamp /\ IdleRace /\ IdleRestore
    /\ IdleSched /\ IdleZ /\ IdleLayout /\ IdleButton /\ IdleLoad /\ IdleCodec

NextCamera ==
    \/ \E w \in ViewportWidths : MountViewport(w)
    \/ InstallCamera
    \/ \E w \in ViewportWidths : Resize(w)

SpecCamera == InitCamera /\ [][NextCamera]_vars

\* C23: installing the camera controller applies the constraints once; a
\* resize re-applies them exactly when it flips the narrow (width < 840) /
\* wide classification, so the number of applications is 1 + the number of
\* flips, and the horizontal padding in force is 16 when the viewport is
\* narrow and 164 when it is wide (a width of 840 is wide).
C23_CameraAppliedOnFlipsOnly ==
    /\ [](cameraPc = "installed" =>
            /\ applications = 1 + flips
            /\ paddingX = (IF viewportWidth < 840 THEN 16 ELSE 164))
    /\ [][cameraPc = "mounted" /\ cameraPc' = "installed" => applications' = 1]_vars
    /\ [][cameraPc = "installed" /\ viewportWidth' # viewportWidth =>
            applications' = (IF (viewportWidth' < 840) # (viewportWidth < 840)
                             THEN applications + 1 ELSE applications)]_vars

\* C23 witness: after resizes that flipped the class twice and resizes that
\* kept it, the constraints have been applied three times and the viewport is
\* 840 wide with the wide padding.
C23_Witness ==
    /\ cameraPc = "installed"
    /\ viewportWidth = 840
    /\ flips = 2
    /\ resizes > 3
    /\ applications = 3
    /\ paddingX = 164

----------------------------------------------------------------------------
(***************************************************************************)
(* Registrations and teardown (src/unnamed/part_001). onMount registers    *)
(* store listeners at once and, after its awaits, side-effect handlers and *)
(* a reaction; two effects of PdfEditor set intervals. The function that   *)
(* onMount returns is called when the editor is unmounted; the async       *)
(* initialization is not cancelled by the unmount.                         *)
(***************************************************************************)
TeardownProps == [type : {"pdf", "whiteboard"}, hasPath : BOOLEAN, hasRef : BOOLEAN]

\* editor.store.listen at the start of onMount.
ListenersOf(pr) ==
    IF pr.type = "whiteboard" THEN {"autosave", "whiteboard"} ELSE {"autosave"}

\* sideEffects.register...Handler and react(...) inside the pdf block.
PdfHandlers == {"beforeChange", "afterCreate", "afterChange", "reaction"}

\* The callbacks a store change that creates shapes invokes.
StoreCallbacks == {"autosave", "whiteboard", "afterCreate"}

\* return () => { unlistenAutoSave(); }
Cleanup(regs) == regs \ {"autosave"}

\* Tldraw calls onMount; the auto-save effect has set its interval if there is
\* a path.
EditorMounted ==
    /\ tdPc = "mount"
    /\ registered' = ListenersOf(tdProps)
    /\ timers' = IF tdProps.hasPath THEN {"check"} ELSE {}
    /\ tdPc' = IF tdProps.type = "pdf" THEN "materialize" ELSE "post"
    /\ UNCHANGED <<tdProps, torn, lateRuns>>
    /\ UNCHANGED notTeardown

\* Promise.all([createAssets, createShapes]) settles: if it resolved, the
\* handlers and the reaction are registered, unmounted or not; if it rejected,
\* the initialization ends there.
RegisterHandlers(ok) ==
    /\ tdPc = "materialize"
    /\ registered' = IF ok THEN registered \cup PdfHandlers ELSE registered
    /\ tdPc' = IF ok THEN "prior" ELSE "rejected"
    /\ UNCHANGED <<tdProps, timers, torn, lateRuns>>
    /\ UNCHANGED notTeardown

\* loadPreviousDrawings(editor) is called: it returns at once without a
\* state_url, else it awaits the fetch.
BeginLoadPrevious ==
    /\ tdPc = "prior"
    /\ tdPc' = IF tdProps.hasRef THEN "fetching" ELSE "post"
    /\ UNCHANGED <<tdProps, registered, timers, torn, lateRuns>>
    /\ UNCHANGED notTeardown

\* The fetch of the state_url settles: if it succeeded, loadSnapshot changes
\* the store, which calls the listeners and handlers still registered.
LoadPreviousInto(ok) ==
    /\ tdPc = "fetching"
    /\ tdPc' = "post"
    /\ lateRuns' = IF torn /\ tdProps.hasRef /\ ok
                   THEN lateRuns \cup (registered \cap StoreCallbacks)
                   ELSE lateRuns
    /\ UNCHANGED <<tdProps, registered, timers, torn>>
    /\ UNCHANGED notTeardown

\* postMessage LOAD_COMPLETE: the initialization ends.
NotifyLoaded ==
    /\ tdPc = "post"
    /\ tdPc' = "done"
    /\ UNCHANGED <<tdProps, registered, timers, torn, lateRuns>>
    /\ UNCHANGED notTeardown

\* A user change reaches the autosave listener: handleChange sets the
\* countdown and the countdown effect sets its interval.
EditStartsCountdown ==
    /\ ~torn
    /\ "autosave" \in registered
    /\ "countdown" \notin timers
    /\ timers' = timers \cup {"countdown"}
    /\ UNCHANGED <<tdProps, tdPc, registered, torn, lateRuns>>
    /\ UNCHANGED notTeardown

\* The countdown reaches null: its interval is cleared.
CountdownRunsOut ==
    /\ ~torn
    /\ "countdown" \in timers
    /\ timers' = timers \ {"countdown"}
    /\ UNCHANGED <<tdProps, tdPc, registered, torn, lateRuns>>
    /\ UNCHANGED notTeardown

\* PdfEditor is rendered with or without a path: the auto-save effect
\* (deps [path, lastChangeTime]) clears its interval and sets a new one if
\* there is a path.
PathChanges(hp) ==
    /\ ~torn
    /\ tdPc # "mount"
    /\ hp # tdProps.hasPath
    /\ tdProps' = [tdProps EXCEPT !.hasPath = hp]
    /\ timers' = IF hp THEN timers \cup {"check"} ELSE timers \ {"check"}
    /\ UNCHANGED <<tdPc, registered, torn, lateRuns>>
    /\ UNCHANGED notTeardown

\* The editor is unmounted: the function returned by onMount runs, and the
\* cleanups of the two effects clear their intervals.
Teardown ==
    /\ ~torn
    /\ tdPc # "mount"
    /\ torn' = TRUE
    /\ registered' = Cleanup(registered)
    /\ timers' = {}
    /\ UNCHANGED <<tdProps, tdPc, lateRuns>>
    /\ UNCHANGED notTeardown

InitTeardown ==
    /\ tdProps \in TeardownProps
    /\ tdPc = "mount"
    /\ registered = {}
    /\ timers = {}
    /\ torn = FALSE
    /\ lateRuns = {}
    /\ IdleSched /\ IdleZ /\ IdleLayout /\ IdleButton /\ IdleLoad /\ IdleCodec
    /\ IdleCamera /\ IdleFilter /\ IdleStamp /\ IdleRace /\ IdleRestore

NextTeardown ==
    \/ EditorMounted
    \/ \E ok \in BOOLEAN : RegisterHandlers(ok)
    \/ BeginLoadPrevious
    \/ \E ok \in BOOLEAN : LoadPreviousInto(ok)
    \/ NotifyLoaded
    \/ EditStartsCountdown
    \/ CountdownRunsOut
    \/ \E hp \in BOOLEAN : PathChanges(hp)
    \/ Teardown

SpecTeardown == InitTeardown /\ [][NextTeardown]_vars

\* C24: once the editor is unmounted no interval is left set and no store
\* listener, side-effect handler or reaction registered at mount is left
\* registered, and no callback runs after the unmount.
C24_TeardownUnregistersAll ==
    torn => /\ timers = {}
            /\ registered = {}
            /\ lateRuns = {}

----------------------------------------------------------------------------
(***************************************************************************)
(* The autosave listener with the added-record filter: the second          *)
(* PdfEditor of src/unnamed/part_000 (lines 426-760), whose store listener *)
(* (lines 593-631) is the only caller of handleChange and the only place   *)
(* that arms the countdown. Every mutation of the document, by onMount's   *)
(* own createAssets / createShapes or by the user, is delivered to it with *)
(* source 'user' as a RecordsDiff {added, updated, removed}; tldraw always *)
(* delivers the three members as objects, empty ones included.             *)
(***************************************************************************)
MaxRecordUpdates == 2     \* updates of one drawn shape

AssetKeys == {"asset:page1"}          \* key.startsWith('asset:')
PageShapeKeys == {"shape:page1"}      \* pdf.pages[i].shapeId
DrawnKeys == {"shape:a", "shape:b", "shape:c"}

Change(a, u, r) == [added |-> a, updated |-> u, removed |-> r]

\* Truthiness of changes.added: it is an object, and every object is truthy.
AddedIsTruthy(changes) == TRUE

\* pdf?.pages.some(page => page.shapeId === key)
IsPageShape(key, t) == t = "pdf" /\ key \in PageShapeKeys

\* addedKeys.every(key => key.startsWith('asset:') || (key.startsWith('shape:')
\* && pdf?.pages.some(...))); every() of no keys is true.
OnlyInitialization(changes, t) ==
    \A key \in changes.added : key \in AssetKeys \/ IsPageShape(key, t)

\* Mutant of AutoSaveListener: every update arms an idle countdown.
AutoSaveListener_NoFilter(source, changes, prev, t) ==
    IF prev = Null THEN CountdownStart ELSE prev

\* The listener of lines 593-631 for one update: the countdown it leaves.
AutoSaveListener(source, changes, prev, t) ==
    IF source # "user" THEN prev
    ELSE IF AddedIsTruthy(changes) /\ OnlyInitialization(changes, t) THEN prev
    ELSE IF ~AddedIsTruthy(changes)
         THEN (IF prev = Null THEN CountdownStart ELSE prev)
         ELSE prev

\* The store applies a mutation of the document and calls the listener.
Deliver(next, changes) ==
    /\ records' = next
    /\ lastChange' = changes
    /\ countdownB' = AutoSaveListener("user", changes, countdownB, filterType)

With(recs, key) ==
    [k \in DOMAIN recs \cup {key} |-> IF k = key THEN 0 ELSE recs[k]]

\* The snapshots a prior session can have saved: nothing, a drawing, or a
\* drawing together with the page asset and page shape.
PriorSnapshots ==
    {{}, {"shape:a"}, {"shape:a"} \cup AssetKeys \cup PageShapeKeys}

\* loadSnapshot(editor.store, state): the document records are replaced by
\* those of the snapshot, and the listener sees the difference.
LoadInitialState(snap) ==
    /\ filterPc = "mounted"
    /\ filterPc' = "setup"
    /\ LET old == DOMAIN records
           changes == Change(snap \ old, snap \cap old, old \ snap)
       IN  IF changes = NoChange
           THEN UNCHANGED <<records, countdownB, lastChange>>
           ELSE Deliver([k \in snap |-> 0], changes)
    /\ UNCHANGED filterType
    /\ UNCHANGED notFilter

\* No path is given, or the fetch of the prior state fails.
SkipInitialState ==
    /\ filterPc = "mounted"
    /\ filterPc' = "setup"
    /\ UNCHANGED <<filterType, records, countdownB, lastChange>>
    /\ UNCHANGED notFilter

\* assetsToCreate / shapesToCreate: the page records the store does not hold.
Missing(keys, recs) == keys \ DOMAIN recs

\* if (assetsToCreate.length > 0) await editor.createAssets(assetsToCreate)
CreatePageAssets ==
    /\ filterPc = "setup"
    /\ filterType = "pdf"
    /\ filterPc' = "assets"
    /\ LET missing == Missing(AssetKeys, records)
       IN  IF missing = {}
           THEN UNCHANGED <<records, countdownB, lastChange>>
           ELSE Deliver([k \in DOMAIN records \cup missing |->
                            IF k \in missing THEN 0 ELSE records[k]],
                        Change(missing, {}, {}))
    /\ UNCHANGED filterType
    /\ UNCHANGED notFilter

\* if (shapesToCreate.length > 0) await editor.createShapes(shapesToCreate)
CreatePageShapes ==
    /\ filterPc = "assets"
    /\ filterPc' = "shapes"
    /\ LET missing == Missing(PageShapeKeys, records)
       IN  IF missing = {}
           THEN UNCHANGED <<records, countdownB, lastChange>>
           ELSE Deliver([k \in DOMAIN records \cup missing |->
                            IF k \in missing THEN 0 ELSE records[k]],
                        Change(missing, {}, {}))
    /\ UNCHANGED filterType
    /\ UNCHANGED notFilter

\* The handlers are registered and makeSureShapesAreAtBottom is called: with
\* a drawn shape on the page it may have to rewrite the keys of the page
\* shapes (rewrites), which the listener sees as an update of them.
InstallGuardians(rewrites) ==
    /\ filterPc = "shapes"
    /\ filterPc' = "ready"
    /\ IF rewrites /\ DOMAIN records \cap DrawnKeys # {}
       THEN Deliver(records, Change({}, PageShapeKeys, {}))
       ELSE UNCHANGED <<records, countdownB, lastChange>>
    /\ UNCHANGED filterType
    /\ UNCHANGED notFilter

\* if (pdf && pdf.pages.length > 0) is false: a whiteboard has no pages.
SkipPdfSetup ==
    /\ filterPc = "setup"
    /\ filterType = "whiteboard"
    /\ filterPc' = "ready"
    /\ UNCHANGED <<filterType, records, countdownB, lastChange>>
    /\ UNCHANGED notFilter

\* window.parent.postMessage({ type: 'LOAD_COMPLETE' }, '*')
PostLoadComplete ==
    /\ filterPc = "ready"
    /\ filterPc' = "complete"
    /\ UNCHANGED <<filterType, records, countdownB, lastChange>>
    /\ UNCHANGED notFilter

\* The user draws a shape.
UserDraws(key) ==
    /\ filterPc # "idle"
    /\ key \in DrawnKeys \ DOMAIN records
    /\ Deliver(With(records, key), Change({key}, {}, {}))
    /\ UNCHANGED <<filterType, filterPc>>
    /\ UNCHANGED notFilter

\* The user moves or restyles a shape they drew.
UserUpdates(key) ==
    /\ filterPc # "idle"
    /\ key \in DrawnKeys \cap DOMAIN records
    /\ records[key] < MaxRecordUpdates
    /\ Deliver([records EXCEPT ![key] = @ + 1], Change({}, {key}, {}))
    /\ UNCHANGED <<filterType, filterPc>>
    /\ UNCHANGED notFilter

\* The user erases a shape they drew.
UserErases(key) ==
    /\ filterPc # "idle"
    /\ key \in DrawnKeys \cap DOMAIN records
    /\ Deliver([k \in DOMAIN records \ {key} |-> records[k]],
               Change({}, {}, {key}))
    /\ UNCHANGED <<filterType, filterPc>>
    /\ UNCHANGED notFilter

\* The editor has mounted and the listener is registered; the scheduler is idle.
InitFilter ==
    /\ filterType \in {"pdf", "whiteboard"}
    /\ filterPc = "mounted"
    /\ records = <<>>
    /\ countdownB = Null
    /\ lastChange = NoChange
    /\ IdleSched /\ IdleZ /\ IdleLayout /\ IdleButton /\ IdleLoad /\ IdleCodec
    /\ IdleCamera /\ IdleTeardown /\ IdleStamp /\ IdleRace /\ IdleRestore

NextFilter ==
    \/ \E snap \in PriorSnapshots : LoadInitialState(snap)
    \/ SkipInitialState
    \/ CreatePageAssets
    \/ CreatePageShapes
    \/ \E rewrites \in BOOLEAN : InstallGuardians(rewrites)
    \/ SkipPdfSetup
    \/ PostLoadComplete
    \/ \E key \in DrawnKeys : UserDraws(key)
    \/ \E key \in DrawnKeys : UserUpdates(key)
    \/ \E key \in DrawnKeys : UserErases(key)

SpecFilter == InitFilter /\ [][NextFilter]_vars

\* The mutation creates a shape that is not a page of the document.
CreatesDrawnShape(changes) == changes.added \cap DrawnKeys # {}

\* The mutation only updates or removes shapes that are not pages.
OnlyTouchesDrawnShapes(changes) ==
    /\ changes.added = {}
    /\ changes.updated \cup changes.removed # {}
    /\ changes.updated \cup changes.removed \subseteq DrawnKeys

\* C30: while the scheduler is idle, a user mutation that creates a shape
\* which is no page of the document, and one that only updates or removes
\* such shapes, each arm the countdown at 10.
C30_UserMutationsArmCountdown ==
    [][(records' # records /\ filterPc' = filterPc /\ countdownB = Null
        /\ (CreatesDrawnShape(lastChange') \/ OnlyTouchesDrawnShapes(lastChange')))
       => countdownB' = CountdownStart]_vars

\* A step of onMount's asynchronous initialization.
StartupStep == filterPc' # filterPc

\* C31: no step of the session start-up (loading the prior snapshot, creating
\* the page assets and page shapes, installing the handlers and running the
\* fix-up) changes the countdown, and the countdown is null when
\* LOAD_COMPLETE is posted.
C31_StartupNeverArms ==
    /\ [][StartupStep => countdownB' = countdownB]_vars
    /\ [][(StartupStep /\ filterPc' = "complete") => countdownB' = Null]_vars

\* C31 witness: a document session has loaded a prior drawing, created its
\* page records, rewritten the page keys and posted LOAD_COMPLETE, with the
\* countdown still null.
C31_Witness ==
    /\ filterPc = "complete"
    /\ filterType = "pdf"
    /\ "shape:a" \in DOMAIN records
    /\ PageShapeKeys \subseteq DOMAIN records
    /\ lastChange = Change({}, PageShapeKeys, {})
    /\ countdownB = Null

\* ---------------------------------------------------------------------------
\* Timestamp autosave scheduler: PdfEditor of part_001.  Times are in seconds.
\* An edit re-runs the auto-save effect (deps [path, lastChangeTime]), which
\* clears the interval and sets a new one, so checkAndSave runs a whole number
\* of seconds after the last recorded edit.
\* ---------------------------------------------------------------------------

\* 10000 ms: the least time between the starts of two auto-saves.
QuietSeconds == 10

MaxSeconds == 12   \* seconds of the session that are explored

\* Date.now() at mount: far above 10000 ms, while lastSaveTimeRef starts at 0.
Epoch == 2 * QuietSeconds

\* handleChange: records the time only if editor.currentPageId is 'page:page'.
HandleChange(onPage, t, prev) == IF onPage THEN t ELSE prev

\* The condition of checkAndSave, with the early return of its effect.
ShouldSave(p, change, save, t) ==
    /\ p
    /\ change > save
    /\ t - save >= QuietSeconds

\* A user edit passes the listener's filters and calls handleChange.
QualifyingEdit(onPage) ==
    /\ lastChangeTime' = HandleChange(onPage, clock, lastChangeTime)
    /\ UNCHANGED <<hasPath, clock, lastSaveTimeRef, saving2, lastOutcome>>
    /\ UNCHANGED notStamp

\* One second passes and the interval runs checkAndSave.
Second ==
    /\ clock < Epoch + MaxSeconds
    /\ clock' = clock + 1
    /\ IF ShouldSave(hasPath, lastChangeTime, lastSaveTimeRef, clock')
       THEN /\ lastSaveTimeRef' = clock'
            /\ saving2' = saving2 + 1
       ELSE UNCHANGED <<lastSaveTimeRef, saving2>>
    /\ UNCHANGED <<hasPath, lastChangeTime, lastOutcome>>
    /\ UNCHANGED notStamp

\* await save() returns (ok) or throws; the catch only logs.
SaveAnswered(ok) ==
    /\ saving2 > 0
    /\ saving2' = saving2 - 1
    /\ lastOutcome' = IF ok THEN "ok" ELSE "failed"
    /\ UNCHANGED <<hasPath, clock, lastChangeTime, lastSaveTimeRef>>
    /\ UNCHANGED notStamp

InitStamp ==
    /\ hasPath \in BOOLEAN
    /\ clock = Epoch
    /\ lastChangeTime = 0
    /\ lastSaveTimeRef = 0
    /\ saving2 = 0
    /\ lastOutcome = "none"
    /\ IdleSched /\ IdleZ /\ IdleLayout /\ IdleButton /\ IdleLoad /\ IdleCodec
    /\ IdleCamera /\ IdleTeardown /\ IdleFilter /\ IdleRace /\ IdleRestore

NextStamp ==
    \/ \E onPage \in BOOLEAN : QualifyingEdit(onPage)
    \/ Second
    \/ \E ok \in BOOLEAN : SaveAnswered(ok)

SpecStamp == InitStamp /\ [][NextStamp]_vars

\* An auto-save starts in this step.
SaveStarts == lastSaveTimeRef' # lastSaveTimeRef

\* C33: in the timestamp scheduler a save attempt never starts earlier than
\* 10 seconds after the most recent qualifying edit.
C33_SaveAfterQuietWindow ==
    [][SaveStarts => clock' - lastChangeTime >= QuietSeconds]_vars

\* C34: after an auto-save has failed and with no edit since it started, a
\* time comes at which checkAndSave starts another attempt.
C34_FailedSaveRetried ==
    (lastOutcome = "failed" /\ saving2 = 0 /\ lastChangeTime < lastSaveTimeRef)
        => \E t \in clock..(lastSaveTimeRef + QuietSeconds) :
               ShouldSave(hasPath, lastChangeTime, lastSaveTimeRef, t)

\* ---------------------------------------------------------------------------
\* Scheduler: uploads in flight
\* ---------------------------------------------------------------------------

\* C35: at most one save upload is in flight at any time (no countdown save
\* starts while a manual save is outstanding, and no manual save starts while
\* a countdown save is outstanding).
C35_OneUploadInFlight == Len(inflight) <= 1

\* ---------------------------------------------------------------------------
\* Concurrent configuration messages: PdfEditorWrapper of App.tsx.  Each
\* message event runs its own handleMessage, and a 'pdf' one is suspended at
\* every `await loadImage` of its own initializeFromPageImages call; the
\* layout specification above follows one such call, this one follows several
\* that overlap.
\* ---------------------------------------------------------------------------
MaxMessages == 2   \* configuration messages received
MaxImages == 2     \* page images of one message

Configs ==
    [type : {"pdf", "whiteboard"}, images : 0..MaxImages, path : Paths \cup {NoPath}]

\* setState({phase: 'edit', config: {type, path}, pdf, state_url}) made by
\* call k for configuration cfg.
EditState(cfg, k) ==
    [phase |-> "edit", type |-> cfg.type, path |-> cfg.path,
     numPages |-> IF cfg.type = "pdf" THEN cfg.images ELSE 0, from |-> k]

\* Whether handleMessage reaches its setState before the next event is
\* dispatched: a whiteboard message has no await, and a pdf message without
\* images awaits only a promise that is already resolved.
SetsAtOnce(cfg) == cfg.type = "whiteboard" \/ cfg.images = 0

\* A configuration message is dispatched.
Receive(cfg) ==
    /\ Len(calls) < MaxMessages
    /\ LET k == Len(calls) + 1
       IN  IF SetsAtOnce(cfg)
           THEN /\ calls' = Append(calls, [config |-> cfg, loaded |-> 0, pc |-> "set"])
                /\ session' = EditState(cfg, k)
           ELSE /\ calls' = Append(calls, [config |-> cfg, loaded |-> 0, pc |-> "probing"])
                /\ UNCHANGED session
    /\ UNCHANGED notRace

\* img.onload in call k: the loop goes on, and after the last image
\* handleMessage goes on to its setState.
ImageLoaded(k) ==
    /\ k \in DOMAIN calls
    /\ calls[k].pc = "probing"
    /\ LET n == calls[k].loaded + 1
           last == n = calls[k].config.images
       IN  /\ calls' = [calls EXCEPT ![k].loaded = n,
                                     ![k].pc = IF last THEN "set" ELSE "probing"]
           /\ session' = IF last THEN EditState(calls[k].config, k) ELSE session
    /\ UNCHANGED notRace

\* img.onerror in call k: the catch of handleMessage logs.
ImageFailed(k) ==
    /\ k \in DOMAIN calls
    /\ calls[k].pc = "probing"
    /\ calls' = [calls EXCEPT ![k].pc = "failed"]
    /\ UNCHANGED session
    /\ UNCHANGED notRace

InitRace ==
    /\ IdleRace
    /\ IdleSched /\ IdleZ /\ IdleLayout /\ IdleButton /\ IdleLoad /\ IdleCodec
    /\ IdleCamera /\ IdleTeardown /\ IdleFilter /\ IdleStamp /\ IdleRestore

NextRace ==
    \/ \E cfg \in Configs : Receive(cfg)
    \/ \E k \in 1..MaxMessages : ImageLoaded(k)
    \/ \E k \in 1..MaxMessages : ImageFailed(k)

SpecRace == InitRace /\ [][NextRace]_vars

\* C36: once every configuration message received has finished its probing,
\* the session is in the edit state of the message received last.
C36_LastConfigurationWins ==
    (Len(calls) >= 2 /\ \A k \in DOMAIN calls : calls[k].pc = "set")
        => session.phase = "edit" /\ session.from = Len(calls)

\* ---------------------------------------------------------------------------
\* Scheduler: range of the countdown
\* ---------------------------------------------------------------------------

\* One second elapses on the countdown effect's interval.
SecondElapses == sinceArm' = sinceArm + 1

\* C37: the countdown is null or an integer in 0..10; a second that elapses
\* while it is n > 0 lowers it by exactly 1; the interval callback never
\* yields a value below 0 and a step that raises the countdown sets it to 10.
C37_CountdownRange ==
    /\ [](countdown = Null \/ countdown \in 0..CountdownStart)
    /\ [](\A n \in 0..CountdownStart : TickNext(n) >= 0 /\ TickNext(n) <= n)
    /\ [][(SecondElapses /\ countdown # Null /\ countdown > 0)
            => countdown' = countdown - 1]_vars
    /\ [][(countdown' # Null /\ countdown' > countdown)
            => countdown' = CountdownStart]_vars

\* Ten seconds after an edit the countdown has gone from 10 to 0.
C37_Witness ==
    /\ countdown = 0
    /\ sinceArm = CountdownStart
    /\ armedByEdit

\* ---------------------------------------------------------------------------
\* Reload of the prior state: loadPreviousDrawings of part_001 (lines 257-308,
\* called at the end of the pdf block of onMount) and the load-state effect of
\* part_002 (lines 60-98).  The inline reference is a text, decoded by
\* SplitSecond, Atob and JsonParse above.
\* ---------------------------------------------------------------------------

\* Annotated documents an earlier session may have saved.
PriorStates ==
    {[document |-> <<65>>, session |-> <<>>],
     [document |-> <<65, 34>>, session |-> <<65>>]}

\* 'A', 'A', 'A' in base64: a text that atob takes and JSON.parse refuses.
NotJson == Btoa(<<65, 65, 65>>).text

\* The inline references: the data URI of a saved state; the same cut short
\* by three characters, or with a '!' in front; a payload that is not JSON;
\* and "data:" without a comma.
InlineTexts ==
    UNION {{DataUri(Btoa(JsonStringify(s)).text),
            DataUri(SubSeq(Btoa(JsonStringify(s)).text, 1,
                           Len(Btoa(JsonStringify(s)).text) - 3)),
            DataUri(<<33>> \o Btoa(JsonStringify(s)).text)} : s \in PriorStates}
    \cup {DataUri(NotJson), <<100, 97, 116, 97, 58>>}

\* How the fetch of a reference by url can end.
PriorFetches == {"ok", "not_json", "not_ok", "rejected"}

StateUrls(src) ==
    {[kind |-> "none"]}
    \cup [kind : {"url"}, result : PriorFetches, body : PriorStates]
    \cup (IF src = "part_001" THEN [kind : {"inline"}, text : InlineTexts] ELSE {})

\* What the try block of the reload has in hand before it touches the
\* editor: the parsed state, or a throw (atob, JSON.parse, a rejected fetch,
\* `!response.ok`, response.json()).
DecodeStateUrl(ref) ==
    IF ref.kind = "inline"
    THEN LET part == SplitSecond(ref.text)
             bin == IF part.defined THEN Atob(part.text)
                    ELSE [threw |-> TRUE, text |-> <<>>]
         IN  IF bin.threw THEN [threw |-> TRUE, value |-> NoSnapshot]
             ELSE JsonParse(bin.text)
    ELSE IF ref.result = "ok" THEN [threw |-> FALSE, value |-> ref.body]
    ELSE [threw |-> TRUE, value |-> NoSnapshot]

\* Mutant of ApplyPrior: the select tool is set before the state is decoded.
ApplyPrior_ToolFirst(src, cv, decoded) ==
    IF decoded.threw
    THEN [cv EXCEPT !.tool = IF src = "part_001" THEN "select" ELSE @]
    ELSE [cv EXCEPT !.tool = IF src = "part_001" THEN "select" ELSE @,
                    !.document = decoded.value]

\* The rest of the try block on canvas cv: part_001 calls setCurrentTool and
\* then loadSnapshot, part_002 loadSnapshot alone; a throw goes to the catch,
\* which touches nothing of the editor.
ApplyPrior(src, cv, decoded) ==
    IF decoded.threw
    THEN cv
    ELSE [cv EXCEPT !.tool = IF src = "part_001" THEN "select" ELSE @,
                    !.document = decoded.value]

\* The messages of part_002's effect (part_001 logs to the console only).
RestorePosts(src, decoded) ==
    IF src # "part_002" THEN <<>>
    ELSE IF decoded.threw THEN <<"LOAD_ERROR">>
    ELSE <<"LOAD_COMPLETE">>

\* The reload runs to its end.
ReloadPriorState ==
    /\ restorePc = "ready"
    /\ IF stateUrl.kind = "none"
       THEN /\ restorePc' = "skipped"
            /\ UNCHANGED <<canvas, loadCalls, restoreOut>>
       ELSE LET decoded == DecodeStateUrl(stateUrl)
            IN  /\ canvas' = ApplyPrior(restoreSrc, canvas, decoded)
                /\ loadCalls' = IF decoded.threw THEN loadCalls ELSE loadCalls + 1
                /\ restoreOut' = restoreOut \o RestorePosts(restoreSrc, decoded)
                /\ restorePc' = IF decoded.threw THEN "failed" ELSE "loaded"
    /\ UNCHANGED <<restoreSrc, stateUrl, canvasBefore>>
    /\ UNCHANGED notRestore

\* The user picks a tool while the reload has not run.
PickTool(t) ==
    /\ restorePc = "ready"
    /\ canvas.tool # t
    /\ canvas' = [canvas EXCEPT !.tool = t]
    /\ canvasBefore' = canvas'
    /\ UNCHANGED <<restoreSrc, stateUrl, restorePc, loadCalls, restoreOut>>
    /\ UNCHANGED notRestore

Tools == {"select", "draw"}

\* The canvas when the reload starts: for a pdf the page assets and shapes
\* are materialized and the lock and z-order handlers registered.
CanvasOf(isPdf) ==
    [assets |-> IF isPdf THEN AssetKeys ELSE {},
     shapes |-> IF isPdf THEN PageShapeKeys ELSE {},
     guards |-> isPdf,
     tool |-> "select",
     document |-> NoSnapshot]

InitRestore ==
    /\ restoreSrc \in {"part_001", "part_002"}
    /\ stateUrl \in StateUrls(restoreSrc)
    /\ canvas \in {CanvasOf(isPdf) : isPdf \in
                      IF restoreSrc = "part_001" THEN {TRUE} ELSE BOOLEAN}
    /\ canvasBefore = canvas
    /\ restorePc = "ready"
    /\ loadCalls = 0
    /\ restoreOut = <<>>
    /\ IdleSched /\ IdleZ /\ IdleLayout /\ IdleButton /\ IdleLoad /\ IdleCodec
    /\ IdleCamera /\ IdleTeardown /\ IdleFilter /\ IdleStamp /\ IdleRace

NextRestore ==
    \/ ReloadPriorState
    \/ \E t \in Tools : PickTool(t)

SpecRestore == InitRestore /\ [][NextRestore]_vars

\* C40: when the read of the prior state fails, loadSnapshot has not been
\* called and the canvas is as it was when the reload started: assets, page
\* shapes, handlers, document and current tool.
C40_FailedDecodeLeavesCanvas ==
    restorePc = "failed" => loadCalls = 0 /\ canvas = canvasBefore

\* C40 witness: an inline reference that atob or JSON.parse refused, read by
\* part_001 while the user was drawing; the pages are still on the canvas.
C40_Witness ==
    /\ restorePc = "failed"
    /\ restoreSrc = "part_001"
    /\ stateUrl.kind = "inline"
    /\ canvas.tool = "draw"
    /\ canvas.shapes = PageShapeKeys
    /\ canvas.guards

====
